---- MODULE Spec2Model ----
(***************************************************************************)
(* Model of parseIcsData (src/services/calendarService.js): the expansion  *)
(* of decoded calendar entries into concrete occurrences inside a query    *)
(* window; and of the request handler of POST /api/calendars/events        *)
(* (src/server.js) with getCalendarEventsFromUrls and getCachedData, which *)
(* fetch, cache and parse the feeds of a request; and of the weather       *)
(* service (src/services/weatherService.js) behind GET /api/weather and of *)
(* getOctoPrintStatus (src/services/octoPrintService.js) behind GET        *)
(* /api/octoprint/status, and of the garage door service (lines 78-194 of  *)
(* the same file) behind GET /api/garage/door/state; and of the time tick  *)
(* and the week buttons of the browser application (src/src/App.js).       *)
(*                                                                         *)
(* Time.  An instant (a JS Date) is an integer number of minutes since     *)
(* 2024-01-01T00:00Z, which was a Monday.  Every input instant lies on the *)
(* minute grid, and the smallest step the code takes (the 1 ms of          *)
(* adjustEndForAllDayEvents and of luxon's endOf) is one unit of the       *)
(* model, so every comparison of the code has the same outcome here.       *)
(*                                                                         *)
(* Libraries.  luxon, rrule and node-ical are used by the code and are     *)
(* modelled by what they compute: luxon's zone arithmetic (objToTS and     *)
(* fixOffset), rrule's enumeration of a rule in UTC (parseOptions'         *)
(* defaults, the per-day filters, COUNT, UNTIL, after, between), and       *)
(* node-ical's decoded VEVENT (start, end, datetype, rrule, exdate,        *)
(* recurrences).  A DATE value is decoded as the local midnight of the     *)
(* target zone, as the repository's tests assume.                          *)
(***************************************************************************)
EXTENDS Integers, Sequences, FiniteSets, TLC

\* The arguments and locals of one call of parseIcsData.
VARIABLES feed, timezone, startRange, endRange, k, allEvents, pc

\* The server: the clock, the feeds' hosts, the cache directory, the request being
\* handled with the locals of getCalendarEventsFromUrls, the console and the responses.
VARIABLES now, online, cache, served, req, startDate, endDate, u, events, console, res, spc

\* The weather service: the clock in hours, the configuration, the cache file, the two
\* module variables, the two started initializeWeatherService calls, the calls of
\* getCachedOrFreshWeather being served, and the last answer of the weather API.
VARIABLES wnow, apiKey, cacheFile, cachedWeatherData, lastFetchTime, inits, calls, fetched

\* getOctoPrintStatus: the clock in milliseconds, the configuration, the two module
\* variables, the calls being served, and the latest call whose request succeeded.
VARIABLES onow, octoConfigured, cachedStatus, lastStatusFetchTime, jobs, lastGood

\* The garage door service: the environment, the MQTT clients created so far, the four
\* module variables, what getGarageDoorState returned last, and the last thing that ran.
VARIABLES mqttEnv, clients, mqttClient, cachedState, lastUpdateTime, connectionStatus,
          gres, lastCall

\* The App component: the browser's clock, the displayed start week (the state startDate),
\* logicalDateRef.current, the number of times the clock was advanced, whether a week
\* button was pressed, and the last thing that ran.
VARIABLES anow, weekStartDate, logicalDateRef, elapsed, clicked, appLast

parseVars == <<feed, timezone, startRange, endRange, k, allEvents, pc>>

serverVars ==
    <<now, online, cache, served, req, startDate, endDate, u, events, console, res, spc>>

weatherVars ==
    <<wnow, apiKey, cacheFile, cachedWeatherData, lastFetchTime, inits, calls, fetched>>

octoVars == <<onow, octoConfigured, cachedStatus, lastStatusFetchTime, jobs, lastGood>>

garageVars ==
    <<mqttEnv, clients, mqttClient, cachedState, lastUpdateTime, connectionStatus, gres,
      lastCall>>

appVars == <<anow, weekStartDate, logicalDateRef, elapsed, clicked, appLast>>

serviceVars == <<weatherVars, octoVars, garageVars, appVars>>

vars == <<parseVars, serverVars, serviceVars>>

\* The weather service before it is loaded.
WeatherIdle ==
    /\ wnow = 0
    /\ apiKey = FALSE
    /\ cacheFile = <<>>
    /\ cachedWeatherData = 0
    /\ lastFetchTime = 0
    /\ inits = <<>>
    /\ calls = <<>>
    /\ fetched = <<>>

\* getOctoPrintStatus before the module is loaded.
OctoIdle ==
    /\ onow = 0
    /\ octoConfigured = FALSE
    /\ cachedStatus = 0
    /\ lastStatusFetchTime = 0
    /\ jobs = <<>>
    /\ lastGood = <<>>

\* The garage door service before the module is loaded.
GarageIdle ==
    /\ mqttEnv = <<>>
    /\ clients = <<>>
    /\ mqttClient = 0
    /\ cachedState = ""
    /\ lastUpdateTime = 0
    /\ connectionStatus = ""
    /\ gres = <<>>
    /\ lastCall = ""

\* The App component before it is mounted.
AppIdle ==
    /\ anow = 0
    /\ weekStartDate = 0
    /\ logicalDateRef = 0
    /\ elapsed = 0
    /\ clicked = FALSE
    /\ appLast = ""

ServicesIdle == WeatherIdle /\ OctoIdle /\ GarageIdle /\ AppIdle

-----------------------------------------------------------------------------
(* Calendar arithmetic on day numbers (day 0 = 2024-01-01, a Monday).      *)

MinPerHour == 60
MinPerDay == 24 * MinPerHour

Min2(a, b) == IF a < b THEN a ELSE b
Max2(a, b) == IF a > b THEN a ELSE b

IsLeap(y) == y % 4 = 0

DaysInYear(y) == IF IsLeap(y) THEN 366 ELSE 365

DaysInMonth(y, m) ==
    IF m = 2 THEN (IF IsLeap(y) THEN 29 ELSE 28)
    ELSE IF m \in {4, 6, 9, 11} THEN 30 ELSE 31

RECURSIVE DaysBeforeYear(_)
DaysBeforeYear(y) == IF y <= 2024 THEN 0 ELSE DaysBeforeYear(y - 1) + DaysInYear(y - 1)

RECURSIVE DaysBeforeMonth(_, _)
DaysBeforeMonth(y, m) == IF m <= 1 THEN 0 ELSE DaysBeforeMonth(y, m - 1) + DaysInMonth(y, m - 1)

\* Day number of the civil date y-m-d.
DayOf(y, m, d) == DaysBeforeYear(y) + DaysBeforeMonth(y, m) + (d - 1)

RECURSIVE YearFrom(_, _)
YearFrom(y, n) == IF n < DaysInYear(y) THEN y ELSE YearFrom(y + 1, n - DaysInYear(y))

YearOf(n) == YearFrom(2024, n)

RECURSIVE MonthFrom(_, _, _)
MonthFrom(y, m, n) == IF n < DaysInMonth(y, m) THEN m ELSE MonthFrom(y, m + 1, n - DaysInMonth(y, m))

MonthOf(n) == MonthFrom(YearOf(n), 1, n - DaysBeforeYear(YearOf(n)))

DomOf(n) == n - DayOf(YearOf(n), MonthOf(n), 1) + 1

\* 0 = MO .. 6 = SU (luxon's 'c' format minus one, rrule's weekday number).
WeekdayOf(n) == n % 7

\* Months counted from January 2024, weeks from the Monday 2024-01-01.
MonthIndex(n) == (YearOf(n) - 2024) * 12 + (MonthOf(n) - 1)
WeekIndex(n) == n \div 7

\* The UTC day and the UTC time of day of an instant.
UtcDay(t) == t \div MinPerDay
UtcTod(t) == t % MinPerDay

\* The instant of y-m-d hh:mm UTC.
Utc(y, m, d, hh, mm) == DayOf(y, m, d) * MinPerDay + hh * MinPerHour + mm

-----------------------------------------------------------------------------
(* The IANA zones the model knows, as luxon reads them from Intl:          *)
(* America/New_York is on daylight time (UTC-4) from the second Sunday of  *)
(* March 07:00Z to the first Sunday of November 06:00Z, and on standard    *)
(* time (UTC-5) otherwise.  Offsets are in minutes, local = UTC + offset.  *)

Zones == {"America/New_York", "UTC"}

FirstSunday(y, m) == DayOf(y, m, 1) + (6 - WeekdayOf(DayOf(y, m, 1)))

DstStart(y) == (FirstSunday(y, 3) + 7) * MinPerDay + 7 * MinPerHour
DstEnd(y) == FirstSunday(y, 11) * MinPerDay + 6 * MinPerHour

Offset(tz, t) ==
    IF tz = "UTC" THEN 0
    ELSE LET y == YearOf(UtcDay(t))
         IN  IF DstStart(y) <= t /\ t < DstEnd(y) THEN 0 - 4 * MinPerHour
             ELSE 0 - 5 * MinPerHour

(* luxon DateTime values in a zone: the instant, read through the zone.    *)
LocalTS(tz, t) == t + Offset(tz, t)
LocalDay(tz, t) == LocalTS(tz, t) \div MinPerDay
LocalTod(tz, t) == LocalTS(tz, t) % MinPerDay
LocalHour(tz, t) == LocalTod(tz, t) \div MinPerHour
LocalMinute(tz, t) == LocalTod(tz, t) % MinPerHour

\* luxon's fixOffset: the instant of a local time, guessed with offset o.  A local
\* time inside a spring-forward gap is moved forward by the length of the gap.
FixOffset(tz, localTS, o) ==
    LET utcGuess == localTS - o
        o2 == Offset(tz, utcGuess)
        utcGuess2 == utcGuess - (o2 - o)
        o3 == Offset(tz, utcGuess2)
    IN  IF o2 = o THEN utcGuess
        ELSE IF o2 = o3 THEN utcGuess2
        ELSE localTS - Min2(o2, o3)

\* DateTime#set({hour, minute, second: 0}) on the DateTime of instant t.
SetTime(tz, t, hour, minute) ==
    FixOffset(tz, LocalDay(tz, t) * MinPerDay + hour * MinPerHour + minute, Offset(tz, t))

\* DateTime#startOf('day'), #plus({days}), #endOf('day').
StartOfDay(tz, t) == SetTime(tz, t, 0, 0)
PlusDays(tz, t, n) == FixOffset(tz, LocalTS(tz, t) + n * MinPerDay, Offset(tz, t))
EndOfDay(tz, t) == StartOfDay(tz, PlusDays(tz, t, 1)) - 1

\* DateTime.fromObject({year, month, day, hour: 0, minute: 0, second: 0}, {zone}) of the
\* civil day n.  The provisional offset luxon takes from the clock does not change the
\* result for a local midnight, which exists exactly once on every day of both zones.
FromObjectMidnight(tz, n) == FixOffset(tz, n * MinPerDay, Offset(tz, n * MinPerDay))

\* The instant of the local time y-m-d hh:mm of zone tz (how node-ical decodes a value
\* with a TZID, and how the tests build their windows with DateTime.fromISO).
Local(tz, y, m, d, hh, mm) ==
    FixOffset(tz, DayOf(y, m, d) * MinPerDay + hh * MinPerHour + mm,
              Offset(tz, DayOf(y, m, d) * MinPerDay + hh * MinPerHour + mm))

-----------------------------------------------------------------------------
(* The rrule library.  A rule is the record                                *)
(*   [freq, interval, count, until, byweekday, bymonthday, bymonth]        *)
(* with count = 0 and until = NoUntil for "absent" and the by-parts as     *)
(* sets (empty for absent).  rrule expands a rule in UTC: every occurrence *)
(* has dtstart's UTC time of day.                                          *)

NoRule == [freq |-> "NONE"]
NoUntil == 0 - 1
Freqs == {"YEARLY", "MONTHLY", "WEEKLY", "DAILY"}

\* rrule's parseOptions: the by-parts a rule without any takes from dtstart.
ParseOptions(rule, dtstart) ==
    LET n == UtcDay(dtstart)
        bare == rule.byweekday = {} /\ rule.bymonthday = {}
    IN  IF ~bare THEN rule
        ELSE IF rule.freq = "YEARLY"
             THEN [rule EXCEPT !.bymonth = IF rule.bymonth = {} THEN {MonthOf(n)} ELSE rule.bymonth,
                               !.bymonthday = {DomOf(n)}]
        ELSE IF rule.freq = "MONTHLY" THEN [rule EXCEPT !.bymonthday = {DomOf(n)}]
        ELSE IF rule.freq = "WEEKLY" THEN [rule EXCEPT !.byweekday = {WeekdayOf(n)}]
        ELSE rule

\* Day n is in a period the rule visits (every interval-th year, month, week or day,
\* counted from dtstart's) and passes the rule's filters.
OnRule(opts, dtstart, n) ==
    LET s == UtcDay(dtstart)
    IN  /\ n >= s
        /\ CASE opts.freq = "DAILY" -> (n - s) % opts.interval = 0
             [] opts.freq = "WEEKLY" -> (WeekIndex(n) - WeekIndex(s)) % opts.interval = 0
             [] opts.freq = "MONTHLY" -> (MonthIndex(n) - MonthIndex(s)) % opts.interval = 0
             [] opts.freq = "YEARLY" -> (YearOf(n) - YearOf(s)) % opts.interval = 0
        /\ opts.bymonth = {} \/ MonthOf(n) \in opts.bymonth
        /\ opts.byweekday = {} \/ WeekdayOf(n) \in opts.byweekday
        /\ opts.bymonthday = {} \/ DomOf(n) \in opts.bymonthday

RuleInstant(dtstart, n) == n * MinPerDay + UtcTod(dtstart)

\* The rule yields an occurrence on UTC day n: the day is on the rule, not after UNTIL,
\* and among the first COUNT occurrences.
Occurs(opts, dtstart, n) ==
    /\ OnRule(opts, dtstart, n)
    /\ opts.until = NoUntil \/ RuleInstant(dtstart, n) <= opts.until
    /\ opts.count = 0
         \/ Cardinality({j \in UtcDay(dtstart)..n : OnRule(opts, dtstart, j)}) <= opts.count

\* new RRule(options) / rrulestr(text) followed by between(after, before, inc): the
\* occurrences strictly between the two instants, or with inc also those on them.
RRuleBetween(rule, dtstart, after, before, inc) ==
    LET opts == ParseOptions(rule, dtstart)
    IN  {RuleInstant(dtstart, n) : n \in
            {j \in UtcDay(after)..UtcDay(before) :
                /\ Occurs(opts, dtstart, j)
                /\ IF inc THEN after <= RuleInstant(dtstart, j) /\ RuleInstant(dtstart, j) <= before
                   ELSE after < RuleInstant(dtstart, j) /\ RuleInstant(dtstart, j) < before}}

\* after(startRange, true) is missing or later than endRange.
SeriesMissesRange(rule, dtstart, from, to) == RRuleBetween(rule, dtstart, from, to, TRUE) = {}

\* A set of instants as the ascending sequence rrule returns.
RECURSIVE SortedSeq(_)
SortedSeq(S) ==
    IF S = {} THEN <<>>
    ELSE LET lo == CHOOSE x \in S : \A y \in S : x <= y
         IN  <<lo>> \o SortedSeq(S \ {lo})

-----------------------------------------------------------------------------
(* node-ical's decoded VEVENT, as parseIcsData reads it:                   *)
(*   [summary, datetype, start, end, rrule, exdate, recurrences]           *)
(* datetype is "date" for an all-day event; rrule is NoRule or a rule;     *)
(* exdate is the set of excluded instants; recurrences is the sequence of  *)
(* override records [recurrenceid, start, end, summary], a summary of ""   *)
(* standing for a missing one.  An emitted event is                        *)
(*   [title, start, end, allDay]                                           *)
(* with allDay one of "true", "false" and "undefined" (the override branch *)
(* sets no allDay).  description, location and calendarUrl are copied by   *)
(* the code and read by no branch; the model leaves them out.              *)

\* The exclusive end of an all-day event left as it is.
unadjustedEnd(item) == item.end

adjustEndForAllDayEvents(item) ==
    IF item.datetype = "date" THEN item.end - 1 ELSE item.end

\* The rule text left as decoded, its BYDAY still naming the local weekday.
localRRuleLine(item) == item.rrule

\* Lines 92-107: the rule text with its BYDAY list, when it has one, replaced by the one
\* UTC weekday of the event's start.
newRRuleLine(item) ==
    IF item.rrule.byweekday # {}
    THEN [item.rrule EXCEPT !.byweekday = {WeekdayOf(UtcDay(item.start))}]
    ELSE item.rrule

\* The dates of the EXDATEs read off the UTC clock.
exdateDatesUtc(item, tz) == {UtcDay(ex) : ex \in item.exdate}

\* Lines 121-130 and 248-256: the local dates of the EXDATEs.
exdateDatesSet(item, tz) == {LocalDay(tz, ex) : ex \in item.exdate}

\* Lines 132-137: the instants of the RECURRENCE-IDs.
modifiedRecurrenceIds(item) ==
    {item.recurrences[i].recurrenceid : i \in DOMAIN item.recurrences}

\* Lines 139-151: the events pushed for the override records, in record order.
RECURSIVE recurrenceEvents(_, _, _, _)
recurrenceEvents(item, i, from, to) ==
    IF i > Len(item.recurrences) THEN <<>>
    ELSE LET recurrence == item.recurrences[i]
             ev == [title |-> IF recurrence.summary # "" THEN recurrence.summary ELSE item.summary,
                    start |-> recurrence.start,
                    end |-> recurrence.end,
                    allDay |-> "undefined"]
         IN  (IF recurrence.start >= from /\ recurrence.start <= to THEN <<ev>> ELSE <<>>)
                \o recurrenceEvents(item, i + 1, from, to)

\* The rule's UTC date taken as it is, without the wall time of the start forced on it.
uncorrectedStart(item, tz, date) == date

\* Lines 174-181: the rule's UTC date with the wall time of the event's start forced on it.
correctedStart(item, tz, date) ==
    SetTime(tz, date, LocalHour(tz, item.start), LocalMinute(tz, item.start))

\* The end found by adding the duration on the wall clock of the zone.
wallClockEnd(tz, cs, duration) == FixOffset(tz, LocalTS(tz, cs) + duration, Offset(tz, cs))

\* Line 189: correctedStart.plus({ milliseconds: duration }), an addition of elapsed time.
correctedEnd(tz, cs, duration) == cs + duration

\* Lines 167-198: the events pushed for the rule's dates.
RECURSIVE timedEvents(_, _, _, _)
timedEvents(item, tz, dates, i) ==
    IF i > Len(dates) THEN <<>>
    ELSE LET date == dates[i]
             cs == correctedStart(item, tz, date)
             duration == adjustEndForAllDayEvents(item) - item.start
             ev == [title |-> item.summary, start |-> cs,
                    end |-> correctedEnd(tz, cs, duration), allDay |-> "false"]
             skip == \/ date \in modifiedRecurrenceIds(item)
                     \/ LocalDay(tz, cs) \in exdateDatesSet(item, tz)
         IN  (IF skip THEN <<>> ELSE <<ev>>) \o timedEvents(item, tz, dates, i + 1)

\* Lines 77-198: a recurring timed event.
recurringTimed(item, tz, from, to) ==
    LET rule == newRRuleLine(item)
    IN  recurrenceEvents(item, 1, from, to)
          \o (IF SeriesMissesRange(rule, item.start, from, to) THEN <<>>
              ELSE timedEvents(item, tz,
                       SortedSeq(RRuleBetween(rule, item.start, from, to, FALSE)), 1))

\* Date#getMonth() + 1 reads the month in the zone of the process, which is the target
\* zone (see the head of the module).
GetMonth(tz, t) == MonthOf(LocalDay(tz, t))

\* The options rebuilt from the decoded rule, a yearly rule left without its month.
ruleOptionsAsDecoded(item, tz) == ParseOptions(item.rrule, item.start)

\* Lines 202-238: the options rebuilt from the decoded rule, with the month of the
\* event's start added to a yearly rule that names no month.
ruleOptions(item, tz) ==
    LET parsedRule == ParseOptions(item.rrule, item.start)
    IN  IF parsedRule.freq = "YEARLY" /\ parsedRule.bymonth = {}
        THEN [parsedRule EXCEPT !.bymonth = {GetMonth(tz, item.start)}]
        ELSE parsedRule

\* Lines 270-306: the events pushed for the rule's dates of an all-day event.
RECURSIVE allDayEvents(_, _, _, _, _, _)
allDayEvents(item, tz, dates, i, from, to) ==
    IF i > Len(dates) THEN <<>>
    ELSE LET localOccurrence == FromObjectMidnight(tz, UtcDay(dates[i]))
             duration == item.end - item.start
             ev == [title |-> item.summary, start |-> localOccurrence,
                    end |-> localOccurrence + duration, allDay |-> "true"]
             skip == \/ localOccurrence < from
                     \/ localOccurrence > to
                     \/ LocalDay(tz, localOccurrence) \in exdateDatesSet(item, tz)
         IN  (IF skip THEN <<>> ELSE <<ev>>) \o allDayEvents(item, tz, dates, i + 1, from, to)

\* A recurring all-day event filtered to the padded range instead of the window.
recurringAllDayPadded(item, tz, from, to) ==
    LET rule == ruleOptions(item, tz)
        expandedStart == from - MinPerDay
        expandedEnd == to + MinPerDay
    IN  IF SeriesMissesRange(rule, item.start, from, to) THEN <<>>
        ELSE allDayEvents(item, tz,
                 SortedSeq(RRuleBetween(rule, item.start, expandedStart, expandedEnd, FALSE)),
                 1, expandedStart, expandedEnd)

\* Lines 199-306: a recurring all-day event.
recurringAllDay(item, tz, from, to) ==
    LET rule == ruleOptions(item, tz)
        expandedStart == from - MinPerDay
        expandedEnd == to + MinPerDay
    IN  IF SeriesMissesRange(rule, item.start, from, to) THEN <<>>
        ELSE allDayEvents(item, tz,
                 SortedSeq(RRuleBetween(rule, item.start, expandedStart, expandedEnd, FALSE)),
                 1, from, to)

\* Lines 313-329: one event per local day of a non-recurring all-day event.
RECURSIVE splitDays(_, _, _, _, _, _)
splitDays(item, tz, currentDay, lastDay, from, to) ==
    IF currentDay > lastDay THEN <<>>
    ELSE LET ev == [title |-> item.summary, start |-> currentDay,
                    end |-> EndOfDay(tz, currentDay), allDay |-> "true"]
         IN  (IF currentDay >= from /\ currentDay <= to THEN <<ev>> ELSE <<>>)
                \o splitDays(item, tz, PlusDays(tz, currentDay, 1), lastDay, from, to)

singleAllDay(item, tz, from, to) ==
    splitDays(item, tz, StartOfDay(tz, item.start),
              StartOfDay(tz, adjustEndForAllDayEvents(item)), from, to)

\* A filter that keeps only the events lying wholly inside the window.
singleTimedContained(item, from, to) ==
    IF item.start >= from /\ adjustEndForAllDayEvents(item) <= to
    THEN <<[title |-> item.summary, start |-> item.start,
            end |-> adjustEndForAllDayEvents(item), allDay |-> "false"]>>
    ELSE <<>>

\* Lines 330-343: a non-recurring event that is not split into days.
singleTimed(item, from, to) ==
    IF item.start < to /\ adjustEndForAllDayEvents(item) > from
    THEN <<[title |-> item.summary, start |-> item.start,
            end |-> adjustEndForAllDayEvents(item), allDay |-> "false"]>>
    ELSE <<>>

\* Lines 68-346: what one VEVENT adds to allEvents.
eventsOfItem(item, tz, from, to) ==
    IF item.rrule # NoRule /\ item.datetype # "date" THEN recurringTimed(item, tz, from, to)
    ELSE IF item.rrule # NoRule THEN recurringAllDay(item, tz, from, to)
    ELSE IF item.datetype = "date" /\ item.start < adjustEndForAllDayEvents(item)
         THEN singleAllDay(item, tz, from, to)
    ELSE singleTimed(item, from, to)

-----------------------------------------------------------------------------
(* The inputs of parseIcsData the model explores: decoded feeds and query  *)
(* windows around the America/New_York transitions of 2024-11-03 (fall     *)
(* back) and 2025-03-09 (spring forward).                                  *)

NY == "America/New_York"

MaxCount == 3
MaxInterval == 2
MaxSpanDays == 3
MaxDurationHours == 4

Rule(freq, interval, count, until, byweekday, bymonthday, bymonth) ==
    [freq |-> freq, interval |-> interval, count |-> count, until |-> until,
     byweekday |-> byweekday, bymonthday |-> bymonthday, bymonth |-> bymonth]

Item(summary, datetype, start, end, rrule, exdate, recurrences) ==
    [summary |-> summary, datetype |-> datetype, start |-> start, end |-> end,
     rrule |-> rrule, exdate |-> exdate, recurrences |-> recurrences]

\* The instant of wall time tod (minutes after midnight) on the local day n of zone tz.
WallInstant(tz, n, tod) == FixOffset(tz, n * MinPerDay + tod, Offset(tz, n * MinPerDay + tod))

\* A window from the local midnight of day a to the local midnight of day b (as the tests
\* build it) or to the end of day b (as server.js builds it with endOf('day')).
Window(tz, a, b, toEndOfDay) ==
    [from |-> FromObjectMidnight(tz, a),
     to |-> IF toEndOfDay THEN EndOfDay(tz, FromObjectMidnight(tz, b))
            ELSE FromObjectMidnight(tz, b)]

Durations == {0, MinPerHour, 90, MaxDurationHours * MinPerHour}

\* The rules given to an event anchored on local day n, a k-th weekday wd of its month.
SimpleRules ==
    {Rule(f, i, c, NoUntil, {}, {}, {}) :
        f \in {"DAILY", "WEEKLY"}, i \in 1..MaxInterval, c \in 0..MaxCount}

AnchoredRules(n) ==
    {Rule("WEEKLY", 1, 0, NoUntil, {WeekdayOf(n)}, {}, {}),
     Rule("WEEKLY", 1, 0, NoUntil, {WeekdayOf(n), (WeekdayOf(n) + 2) % 7}, {}, {}),
     Rule("WEEKLY", 1, 0, (n + 15) * MinPerDay, {}, {}, {}),
     Rule("MONTHLY", 1, 0, NoUntil, {}, {DomOf(n)}, {}),
     Rule("YEARLY", 1, 0, NoUntil, {}, {}, {}),
     Rule("YEARLY", 1, 0, NoUntil, {}, {DomOf(n)}, {})}

\* Rules for the series that carry EXDATEs and overrides.
ExceptionRules(n) ==
    {Rule("DAILY", 1, 0, NoUntil, {}, {}, {}),
     Rule("WEEKLY", 1, 0, NoUntil, {}, {}, {}),
     Rule("WEEKLY", 1, MaxCount + 1, NoUntil, {WeekdayOf(n)}, {}, {})}

PeriodDays(rule) == IF rule.freq = "DAILY" THEN 1 ELSE 7

\* EXDATEs and overrides of a series anchored on local day n at wall time tod, with an
\* instance every p days: the first or the second instance after the anchor is excluded,
\* or replaced by a record that keeps or moves its time.
ExdateSets(tz, n, tod, p) ==
    {{}} \cup {{WallInstant(tz, n + e * p, tod)} : e \in {1, 2}}

OverrideShifts == {0, 30, 0 - MinPerDay, MinPerDay}

RecurrenceSeqs(tz, n, tod, dur, p) ==
    {<<>>} \cup
    {<<[recurrenceid |-> WallInstant(tz, n + r * p, tod),
        start |-> WallInstant(tz, n + r * p, tod) + sh,
        end |-> WallInstant(tz, n + r * p, tod) + sh + dur,
        summary |-> "Modified Event"]>> : r \in {1, 2}, sh \in OverrideShifts}

RecurringTimedItems(tz, anchors, durs) ==
    UNION {
      UNION {
        {Item("Event", "date-time", WallInstant(tz, x[1].day, x[1].tod),
              WallInstant(tz, x[1].day, x[1].tod) + x[2], r, ex, rec) :
            ex \in ExdateSets(tz, x[1].day, x[1].tod, PeriodDays(r)),
            rec \in RecurrenceSeqs(tz, x[1].day, x[1].tod, x[2], PeriodDays(r))}
        : r \in ExceptionRules(x[1].day)}
      : x \in anchors \X durs}

SingleTimedItems(tz, anchors, durs) ==
    {Item("Event", "date-time", WallInstant(tz, a.day, a.tod), WallInstant(tz, a.day, a.tod) + d,
          NoRule, {}, <<>>) : a \in anchors, d \in durs}

\* An all-day event of n days from local day a: DTSTART and the exclusive DTEND decoded
\* as local midnights.
AllDayItem(tz, a, n, rule, exdays) ==
    Item("All Day Event", "date", FromObjectMidnight(tz, a), FromObjectMidnight(tz, a + n),
         rule, {FromObjectMidnight(tz, x) : x \in exdays}, <<>>)

Anchor(y, m, d, hh, mm) == [day |-> DayOf(y, m, d), tod |-> hh * MinPerHour + mm]

AllRules(n) == SimpleRules \cup AnchoredRules(n)

PlainTimedItems(tz, anchors) ==
    UNION {{Item("Event", "date-time", WallInstant(tz, x[1].day, x[1].tod),
                 WallInstant(tz, x[1].day, x[1].tod) + x[2], r, {}, <<>>) :
               r \in AllRules(x[1].day)} : x \in anchors \X Durations}

ItemsOf(tz, timedAnchors, singleAnchors, days) ==
    PlainTimedItems(tz, timedAnchors)
      \cup RecurringTimedItems(tz, timedAnchors, {MinPerHour})
      \cup SingleTimedItems(tz, singleAnchors, Durations)
      \cup {AllDayItem(tz, a, n, NoRule, {}) : a \in days, n \in 0..MaxSpanDays}
      \cup UNION {{AllDayItem(tz, a, n, r, ex) :
                      n \in 1..2, r \in AllRules(a), ex \in {{}, {a + 1}, {a + 7}}} : a \in days}

FallAnchors ==
    {Anchor(2024, 10, 29, 20, 30), Anchor(2024, 11, 1, 9, 0), Anchor(2024, 10, 27, 0, 30)}

FallSingleAnchors ==
    FallAnchors \cup
    {Anchor(2024, 11, 1, 0, 0), Anchor(2024, 10, 31, 22, 0), Anchor(2024, 10, 15, 10, 0),
     Anchor(2024, 11, 2, 0, 0), Anchor(2024, 11, 5, 23, 0), Anchor(2024, 11, 15, 10, 0)}

FallDays == {DayOf(2024, 10, 27), DayOf(2024, 11, 2), DayOf(2024, 11, 4)}

FallWindows(tz) ==
    {Window(tz, DayOf(2024, 10, 28), DayOf(2024, 11, 6), FALSE),
     Window(tz, DayOf(2024, 11, 1), DayOf(2024, 11, 2), FALSE),
     Window(tz, DayOf(2024, 11, 1), DayOf(2024, 11, 10), FALSE),
     Window(tz, DayOf(2024, 10, 30), DayOf(2024, 11, 5), TRUE)}

SpringAnchors ==
    {Anchor(2025, 3, 8, 2, 30), Anchor(2025, 3, 4, 23, 30), Anchor(2025, 3, 3, 10, 0)}

\* A series that starts in daylight time and is queried across the next spring.
AutumnAnchors == {Anchor(2024, 10, 27, 2, 30)}

SpringDays == {DayOf(2025, 3, 8), DayOf(2025, 3, 9)}

SpringWindows(tz) ==
    {Window(tz, DayOf(2025, 3, 7), DayOf(2025, 3, 11), FALSE),
     Window(tz, DayOf(2025, 3, 3), DayOf(2025, 3, 17), FALSE),
     Window(tz, DayOf(2025, 3, 9), DayOf(2025, 3, 12), TRUE)}

\* The yearly and monthly series of the tests, in a window of three months.
LongItems(tz) ==
    {AllDayItem(tz, DayOf(2024, 12, 8), 1, r, {}) :
        r \in {Rule("YEARLY", 1, 0, NoUntil, {}, {8}, {}),
               Rule("YEARLY", 1, 0, NoUntil, {}, {}, {}),
               Rule("MONTHLY", 1, MaxCount, NoUntil, {}, {8}, {})}}
      \cup {Item("Event", "date-time", WallInstant(tz, DayOf(2024, 12, 8), 10 * MinPerHour),
                 WallInstant(tz, DayOf(2024, 12, 8), 11 * MinPerHour), r, {}, <<>>) :
               r \in {Rule("YEARLY", 1, 0, NoUntil, {}, {8}, {}),
                      Rule("YEARLY", 1, 0, NoUntil, {}, {}, {}),
                      Rule("YEARLY", 1, 0, NoUntil, {}, {8}, {12})}}

LongWindows(tz) ==
    {Window(tz, DayOf(2024, 11, 1), DayOf(2025, 2, 1), FALSE),
     Window(tz, DayOf(2024, 12, 1), DayOf(2025, 12, 31), FALSE)}

\* All-day series anchored in one offset of the zone and asked for in a window that
\* begins or ends on the local midnight of an instance in the other offset.
BoundaryItems(tz) ==
    {AllDayItem(tz, a, 1, r, {}) :
        a \in {DayOf(2024, 11, 3), DayOf(2024, 3, 10)},
        r \in {Rule("YEARLY", 1, 0, NoUntil, {}, {3}, {}),
               Rule("YEARLY", 1, 0, NoUntil, {}, {10}, {}),
               Rule("YEARLY", 1, 0, NoUntil, {}, {}, {}),
               Rule("MONTHLY", 1, 0, NoUntil, {}, {}, {})}}

BoundaryWindows(tz) ==
    {Window(tz, DayOf(2025, 11, 3), DayOf(2025, 11, 10), FALSE),
     Window(tz, DayOf(2025, 10, 27), DayOf(2025, 11, 3), FALSE),
     Window(tz, DayOf(2025, 3, 3), DayOf(2025, 3, 10), FALSE),
     Window(tz, DayOf(2025, 3, 10), DayOf(2025, 3, 12), TRUE),
     Window(tz, DayOf(2025, 3, 1), DayOf(2025, 11, 30), TRUE)}

\* A second VEVENT some feeds carry in front: a series that ended long before the
\* window, or a single event inside the fall windows.
Companions(tz) ==
    {Item("Other", "date", FromObjectMidnight(tz, DayOf(2024, 1, 12)),
          FromObjectMidnight(tz, DayOf(2024, 1, 13)),
          Rule("WEEKLY", 1, 2, NoUntil, {}, {}, {}), {}, <<>>),
     Item("Other", "date-time", WallInstant(tz, DayOf(2024, 11, 1), 12 * MinPerHour),
          WallInstant(tz, DayOf(2024, 11, 1), 13 * MinPerHour), NoRule, {}, <<>>)}

\* VEVENTs whose rule came out of the decoder without a frequency the code knows.
BrokenItems(tz) ==
    {Item("Broken", "date-time", WallInstant(tz, DayOf(2024, 11, 1), 9 * MinPerHour),
          WallInstant(tz, DayOf(2024, 11, 1), 10 * MinPerHour),
          Rule("UNKNOWN", 1, 0, NoUntil, {}, {}, {}), {}, <<>>),
     Item("Broken", "date", FromObjectMidnight(tz, DayOf(2024, 11, 1)),
          FromObjectMidnight(tz, DayOf(2024, 11, 2)),
          Rule("UNKNOWN", 1, 0, NoUntil, {}, {}, {}), {}, <<>>)}

FeedsOf(items) == {<<it>> : it \in items}

Inputs ==
    (FeedsOf(ItemsOf(NY, FallAnchors, FallSingleAnchors, FallDays)) \X FallWindows(NY))
      \cup (FeedsOf(ItemsOf(NY, SpringAnchors, SpringAnchors, SpringDays)) \X SpringWindows(NY))
      \cup (FeedsOf(PlainTimedItems(NY, AutumnAnchors)) \X SpringWindows(NY))
      \cup (FeedsOf(LongItems(NY)) \X LongWindows(NY))
      \cup (FeedsOf(BoundaryItems(NY)) \X BoundaryWindows(NY))
      \cup ({<<c, it>> : c \in Companions(NY), it \in SingleTimedItems(NY, FallSingleAnchors, Durations)}
              \X FallWindows(NY))
      \cup ({<<>>} \X FallWindows(NY))
      \cup ((FeedsOf(BrokenItems(NY))
               \cup {<<b, c>> : b \in BrokenItems(NY), c \in Companions(NY)}
               \cup {<<c, b>> : b \in BrokenItems(NY), c \in Companions(NY)})
              \X FallWindows(NY))

-----------------------------------------------------------------------------
(* parseIcsData as a state machine: the loop over the decoded VEVENTs, one *)
(* step per VEVENT, and the return of allEvents.                           *)

\* Lines 64-348 as one function of the decoded feed: the events of its VEVENTs in feed
\* order (the call throws instead when ParseThrows holds).
RECURSIVE parseIcsData(_, _, _, _, _)
parseIcsData(parsedData, i, tz, from, to) ==
    IF i > Len(parsedData) THEN <<>>
    ELSE eventsOfItem(parsedData[i], tz, from, to) \o parseIcsData(parsedData, i + 1, tz, from, to)

\* The server at rest, while the model follows one call of parseIcsData.
ServerIdle ==
    /\ now = 0
    /\ online = {}
    /\ cache = <<>>
    /\ served = 0
    /\ req = <<>>
    /\ startDate = 0
    /\ endDate = 0
    /\ u = 0
    /\ events = <<>>
    /\ console = <<>>
    /\ res = <<>>
    /\ spc = "off"

\* new RRule(options) and rrulestr(text) throw for a frequency that is not one of rrule's.
InvalidFrequency(item) == item.rrule # NoRule /\ item.rrule.freq \notin Freqs

ParseThrows(parsedData) == \E i \in DOMAIN parsedData : InvalidFrequency(parsedData[i])

Init ==
    /\ timezone = NY
    /\ \E in \in Inputs :
          /\ feed = in[1]
          /\ startRange = in[2].from
          /\ endRange = in[2].to
    /\ k = 1
    /\ allEvents = <<>>
    /\ pc = "loop"
    /\ ServerIdle
    /\ ServicesIdle

\* The loop body on the k-th VEVENT, which is of the given kind.
Step(kind) ==
    /\ pc = "loop"
    /\ k <= Len(feed)
    /\ kind
    /\ allEvents' = allEvents \o eventsOfItem(feed[k], timezone, startRange, endRange)
    /\ k' = k + 1
    /\ UNCHANGED <<feed, timezone, startRange, endRange, pc>>
    /\ UNCHANGED <<serverVars, serviceVars>>

RecurringTimedEvent ==
    Step(feed[k].rrule # NoRule /\ feed[k].datetype # "date" /\ ~InvalidFrequency(feed[k]))

RecurringAllDayEvent ==
    Step(feed[k].rrule # NoRule /\ feed[k].datetype = "date" /\ ~InvalidFrequency(feed[k]))

\* Lines 106 and 240-245: the rule of the k-th VEVENT has no frequency rrule knows; the
\* all-day branch warns of it, and in both branches the construction of the rule throws
\* "Invalid frequency".  Nothing in parseIcsData catches it.
RuleThrows ==
    /\ pc = "loop"
    /\ k <= Len(feed)
    /\ InvalidFrequency(feed[k])
    /\ pc' = "threw"
    /\ UNCHANGED <<feed, timezone, startRange, endRange, k, allEvents>>
    /\ UNCHANGED <<serverVars, serviceVars>>

SingleAllDayEvent ==
    Step(/\ feed[k].rrule = NoRule
         /\ feed[k].datetype = "date"
         /\ feed[k].start < adjustEndForAllDayEvents(feed[k]))

SingleTimedEvent ==
    Step(/\ feed[k].rrule = NoRule
         /\ ~(feed[k].datetype = "date" /\ feed[k].start < adjustEndForAllDayEvents(feed[k])))

Return ==
    /\ pc = "loop"
    /\ k > Len(feed)
    /\ pc' = "returned"
    /\ UNCHANGED <<feed, timezone, startRange, endRange, k, allEvents>>
    /\ UNCHANGED <<serverVars, serviceVars>>

Next ==
    \/ RecurringTimedEvent
    \/ RecurringAllDayEvent
    \/ SingleAllDayEvent
    \/ SingleTimedEvent
    \/ RuleThrows
    \/ Return

Spec == Init /\ [][Next]_vars

-----------------------------------------------------------------------------
(* The server: POST /api/calendars/events (src/server.js lines 67-93),     *)
(* getCalendarEventsFromUrls (lines 350-367) and getCachedData (lines      *)
(* 14-40).  Requests are handled one after the other; between two requests *)
(* the clock advances and the hosts of the feeds go off line and come      *)
(* back.  A cache file is [data, mtimeMs], or NoFile.                      *)

CACHE_TTL_MS == 20

DefaultDaysPast == 90
DefaultDaysFuture == 180

MaxUrls == 2
MaxRequests == 2
MaxTicks == 3

TickMs == CACHE_TTL_MS \div 2

Urls == {"u1", "u2", "u3"}

\* What the host of each URL serves: one late event; an earlier event and a long one;
\* and a feed with a rule that cannot be decoded.
Site(url) ==
    CASE url = "u1" ->
           <<Item("Late", "date-time", Local(NY, 2024, 11, 6, 10, 0),
                  Local(NY, 2024, 11, 6, 11, 0), NoRule, {}, <<>>)>>
      [] url = "u2" ->
           <<Item("Early", "date-time", Local(NY, 2024, 11, 5, 9, 0),
                  Local(NY, 2024, 11, 5, 10, 0), NoRule, {}, <<>>),
             Item("Trip", "date-time", Local(NY, 2024, 10, 28, 8, 0),
                  Local(NY, 2024, 11, 10, 20, 0), NoRule, {}, <<>>)>>
      [] OTHER ->
           <<Item("Broken", "date-time", Local(NY, 2024, 11, 1, 9, 0),
                  Local(NY, 2024, 11, 1, 10, 0),
                  Rule("UNKNOWN", 1, 0, NoUntil, {}, {}, {}), {}, <<>>)>>

NoFile == [data |-> <<>>, mtimeMs |-> 0 - 1]

Now0 == Local(NY, 2024, 11, 4, 12, 0)

\* The lists of at most n different URLs.
RECURSIVE UrlLists(_)
UrlLists(n) ==
    IF n = 0 THEN {<<>>}
    ELSE UrlLists(n - 1)
           \cup {Append(l, url) : l \in {m \in UrlLists(n - 1) : Len(m) = n - 1},
                                  url \in Urls}

NoRepeat(l) == \A a, b \in DOMAIN l : a # b => l[a] # l[b]

\* The request bodies: daysPast and daysFuture are absent (0 here, which "||" treats
\* alike), positive, or negative; one body lacks the timezone.
Requests ==
    {[calendarUrls |-> l, timezone |-> NY, daysPast |-> d[1], daysFuture |-> d[2]] :
        l \in {m \in UrlLists(MaxUrls) : NoRepeat(m)},
        d \in {<<0, 0>>, <<3, 3>>, <<0 - 3, 0 - 5>>}}
      \cup {[calendarUrls |-> <<"u1">>, timezone |-> "", daysPast |-> 0, daysFuture |-> 0]}

\* The parser at rest, while the model follows the server.
ParserIdle ==
    /\ feed = <<>>
    /\ timezone = NY
    /\ startRange = 0
    /\ endRange = 0
    /\ k = 0
    /\ allEvents = <<>>
    /\ pc = "off"

ServerInit ==
    /\ ParserIdle
    /\ ServicesIdle
    /\ now = Now0
    /\ online \in SUBSET Urls
    /\ cache = [url \in Urls |-> NoFile]
    /\ served = 0
    /\ req = <<>>
    /\ startDate = 0
    /\ endDate = 0
    /\ u = 0
    /\ events = <<>>
    /\ console = <<>>
    /\ res = <<>>
    /\ spc = "idle"

\* server.js lines 69-74: a body without timezone is answered 400.
BadRequest ==
    /\ spc = "idle"
    /\ served < MaxRequests
    /\ \E r \in Requests :
          /\ r.timezone = ""
          /\ req' = r
    /\ res' = [status |-> 400, body |-> <<>>]
    /\ served' = served + 1
    /\ spc' = "sent"
    /\ UNCHANGED <<now, online, cache, startDate, endDate, u, events, console>>
    /\ UNCHANGED <<parseVars, serviceVars>>

\* server.js lines 76-85 and calendarService.js lines 350-355: the window is computed
\* from the clock and the loop over the URLs begins.
AcceptRequest ==
    /\ spc = "idle"
    /\ served < MaxRequests
    /\ \E r \in Requests :
          /\ r.timezone # ""
          /\ req' = r
          /\ startDate' = StartOfDay(r.timezone,
                PlusDays(r.timezone, now,
                         0 - (IF r.daysPast # 0 THEN r.daysPast ELSE DefaultDaysPast)))
          /\ endDate' = EndOfDay(r.timezone,
                PlusDays(r.timezone, now,
                         IF r.daysFuture # 0 THEN r.daysFuture ELSE DefaultDaysFuture))
    /\ u' = 1
    /\ spc' = "loop"
    /\ UNCHANGED <<now, online, cache, served, events, console, res>>
    /\ UNCHANGED <<parseVars, serviceVars>>

\* Lines 362-363 and their failure (server.js lines 87-91): the events of the feed are
\* appended, or the error of parseIcsData ends the request with status 500.
ParseAndPush(icsData) ==
    IF ParseThrows(icsData)
    THEN /\ res' = [status |-> 500, body |-> <<>>]
         /\ served' = served + 1
         /\ spc' = "sent"
         /\ UNCHANGED <<u, events>>
    ELSE /\ events' = events \o parseIcsData(icsData, 1, req.timezone, startDate, endDate)
         /\ u' = u + 1
         /\ UNCHANGED <<res, served, spc>>

\* Lines 18-22: the cache file exists and is younger than the time to live.
Fresh(url) == cache[url] # NoFile /\ now - cache[url].mtimeMs < CACHE_TTL_MS

\* Lines 14-40: what getCachedData(url) does in the present state: it returns the cache
\* file's data if the file is fresh, else the data fetched from the URL, and it throws if
\* the fetch fails.
getCachedData(url) ==
    IF Fresh(url) THEN [threw |-> FALSE, data |-> cache[url].data]
    ELSE IF url \in online THEN [threw |-> FALSE, data |-> Site(url)]
    ELSE [threw |-> TRUE, data |-> <<>>]

\* One turn of the loop of lines 357-364 in which getCachedData answers from the cache.
CacheHit ==
    /\ spc = "loop"
    /\ u <= Len(req.calendarUrls)
    /\ Fresh(req.calendarUrls[u])
    /\ console' = Append(console, req.calendarUrls[u])
    /\ ~getCachedData(req.calendarUrls[u]).threw
    /\ ParseAndPush(getCachedData(req.calendarUrls[u]).data)
    /\ UNCHANGED <<now, online, cache, req, startDate, endDate>>
    /\ UNCHANGED <<parseVars, serviceVars>>

\* One turn of the loop in which getCachedData fetches the URL (lines 27-39); writing the
\* cache file may fail, which is only logged.
Fetch ==
    /\ spc = "loop"
    /\ u <= Len(req.calendarUrls)
    /\ ~Fresh(req.calendarUrls[u])
    /\ ~getCachedData(req.calendarUrls[u]).threw
    /\ console' = Append(console, req.calendarUrls[u])
    /\ \E written \in BOOLEAN :
          cache' = IF written
                   THEN [cache EXCEPT ![req.calendarUrls[u]] =
                            [data |-> Site(req.calendarUrls[u]), mtimeMs |-> now]]
                   ELSE cache
    /\ ParseAndPush(getCachedData(req.calendarUrls[u]).data)
    /\ UNCHANGED <<now, online, req, startDate, endDate>>
    /\ UNCHANGED <<parseVars, serviceVars>>

\* One turn of the loop in which axios.get rejects (line 28): nothing catches it before
\* the handler of the request, which answers 500 (server.js lines 87-91).
FetchFails ==
    /\ spc = "loop"
    /\ u <= Len(req.calendarUrls)
    /\ getCachedData(req.calendarUrls[u]).threw
    /\ console' = Append(console, req.calendarUrls[u])
    /\ res' = [status |-> 500, body |-> <<>>]
    /\ served' = served + 1
    /\ spc' = "sent"
    /\ UNCHANGED <<now, online, cache, req, startDate, endDate, u, events>>
    /\ UNCHANGED <<parseVars, serviceVars>>

\* Line 366 and server.js line 86: the list is returned and sent.
Respond ==
    /\ spc = "loop"
    /\ u > Len(req.calendarUrls)
    /\ res' = [status |-> 200, body |-> events]
    /\ served' = served + 1
    /\ spc' = "sent"
    /\ UNCHANGED <<now, online, cache, req, startDate, endDate, u, events, console>>
    /\ UNCHANGED <<parseVars, serviceVars>>

\* The handler has answered: its locals are gone and the server waits for a request.
Finish ==
    /\ spc = "sent"
    /\ req' = <<>>
    /\ startDate' = 0
    /\ endDate' = 0
    /\ u' = 0
    /\ events' = <<>>
    /\ console' = <<>>
    /\ res' = <<>>
    /\ spc' = "idle"
    /\ UNCHANGED <<now, online, cache, served>>
    /\ UNCHANGED <<parseVars, serviceVars>>

\* Time passes between two requests, half a time to live at a time.
Tick ==
    /\ spc = "idle"
    /\ now + TickMs <= Now0 + MaxTicks * TickMs
    /\ now' = now + TickMs
    /\ UNCHANGED <<online, cache, served, req, startDate, endDate, u, events, console, res, spc>>
    /\ UNCHANGED <<parseVars, serviceVars>>

\* The host of a feed stops answering, or answers again.
GoOffline ==
    /\ spc = "idle"
    /\ \E url \in online : online' = online \ {url}
    /\ UNCHANGED <<now, cache, served, req, startDate, endDate, u, events, console, res, spc>>
    /\ UNCHANGED <<parseVars, serviceVars>>

GoOnline ==
    /\ spc = "idle"
    /\ \E url \in Urls \ online : online' = online \cup {url}
    /\ UNCHANGED <<now, cache, served, req, startDate, endDate, u, events, console, res, spc>>
    /\ UNCHANGED <<parseVars, serviceVars>>

ServerNext ==
    \/ BadRequest
    \/ AcceptRequest
    \/ CacheHit
    \/ Fetch
    \/ FetchFails
    \/ Respond
    \/ Finish
    \/ Tick
    \/ GoOffline
    \/ GoOnline

ServerSpec == ServerInit /\ [][ServerNext]_vars

-----------------------------------------------------------------------------
(* The weather service (src/services/weatherService.js) behind GET          *)
(* /api/weather (src/server.js lines 96-106).  Time is in hours, the unit   *)
(* of CACHE_LIFETIME_HOURS; every comparison of the code is between whole   *)
(* multiples of an hour here.  A forecast is a positive number, the later   *)
(* answer of the API the larger; NoForecast is the null of line 27.  The    *)
(* cache file is [kind, forecast, timestamp] with kind "absent" (readFile   *)
(* fails with ENOENT), "corrupt" (JSON.parse throws) or "json".             *)
(*                                                                         *)
(* initializeWeatherService is started twice without being awaited: when    *)
(* the module is loaded (line 145) and by server.js (line 51).  Each run    *)
(* suspends at its readFile; the file is read at some moment after that and *)
(* the run resumes at some later moment, in any order with the steps of the *)
(* requests.  getCachedOrFreshWeather suspends at axios.get and at the      *)
(* mkdir/writeFile pair of fetchAndCacheWeather.                            *)

CACHE_LIFETIME_HOURS == 6

MaxWeatherTicks == 3
MaxFetches == 2

NoForecast == 0
OldForecast == NoForecast + 1
WeatherNow0 == 4 * CACHE_LIFETIME_HOURS
WeatherTickHours == CACHE_LIFETIME_HOURS \div 2

Inits == {"module", "server"}
Calls == {"a", "b"}

NoFetch == [at |-> 0, forecast |-> NoForecast]
WeatherFile(kind, forecast, timestamp) ==
    [kind |-> kind, forecast |-> forecast, timestamp |-> timestamp]
NotRead == WeatherFile("pending", NoForecast, 0)

\* The cache file a start of the server can find: none, an unreadable one, or one that an
\* earlier run wrote half a lifetime or one and a half lifetimes ago.
CacheFiles ==
    {WeatherFile("absent", NoForecast, 0), WeatherFile("corrupt", NoForecast, 0),
     WeatherFile("json", OldForecast, WeatherNow0 - WeatherTickHours),
     WeatherFile("json", OldForecast, WeatherNow0 - 3 * WeatherTickHours)}

IdleCall ==
    [st |-> "idle", value |-> NoForecast, requested |-> FALSE, via |-> "",
     forecast |-> NoForecast, timestamp |-> 0]

WeatherInit ==
    /\ ParserIdle
    /\ ServerIdle
    /\ OctoIdle
    /\ GarageIdle
    /\ AppIdle
    /\ wnow = WeatherNow0
    /\ apiKey \in BOOLEAN
    /\ cacheFile \in CacheFiles
    /\ cachedWeatherData = NoForecast
    /\ lastFetchTime = 0
    /\ inits = [p \in Inits |-> [st |-> "reading", data |-> NotRead]]
    /\ calls = [c \in Calls |-> IdleCall]
    /\ fetched = NoFetch

\* Line 35: the pending readFile of a run of initializeWeatherService reads the file.
ReadFile(p) ==
    /\ inits[p].st = "reading"
    /\ inits' = [inits EXCEPT ![p] = [st |-> "read", data |-> cacheFile]]
    /\ UNCHANGED <<wnow, apiKey, cacheFile, cachedWeatherData, lastFetchTime, calls, fetched>>
    /\ UNCHANGED <<parseVars, serverVars, octoVars, garageVars, appVars>>

\* Lines 34-53: the run resumes with what was read.
InitializeWeatherService(p) ==
    /\ inits[p].st = "read"
    /\ LET parsedData == inits[p].data
       IN  IF parsedData.kind = "json"
           THEN IF wnow - parsedData.timestamp < CACHE_LIFETIME_HOURS
                THEN /\ cachedWeatherData' = parsedData.forecast
                     /\ lastFetchTime' = parsedData.timestamp
                ELSE UNCHANGED <<cachedWeatherData, lastFetchTime>>
           ELSE /\ cachedWeatherData' = NoForecast
                /\ lastFetchTime' = 0
    /\ inits' = [inits EXCEPT ![p] = [st |-> "done", data |-> NotRead]]
    /\ UNCHANGED <<wnow, apiKey, cacheFile, calls, fetched>>
    /\ UNCHANGED <<parseVars, serverVars, octoVars, garageVars, appVars>>

\* The catch block of getCachedOrFreshWeather that rethrows whatever is held in memory.
alwaysRethrow(call, held) ==
    [call EXCEPT !.st = "rejected", !.via = "fallback"]

\* Lines 134-141: the catch block of getCachedOrFreshWeather.
fallbackLogic(call, held) ==
    IF held # NoForecast
    THEN [call EXCEPT !.st = "resolved", !.value = held, !.via = "fallback"]
    ELSE [call EXCEPT !.st = "rejected", !.via = "fallback"]

\* Lines 124-133 and 60-76: a call of getCachedOrFreshWeather up to its first suspension.
GetCachedOrFreshWeather(c) ==
    /\ calls[c].st = "idle"
    /\ LET cacheExpired == (wnow - lastFetchTime) > CACHE_LIFETIME_HOURS
       IN  calls' = [calls EXCEPT ![c] =
               IF cachedWeatherData # NoForecast /\ ~cacheExpired
               THEN [@ EXCEPT !.st = "resolved", !.value = cachedWeatherData, !.via = "cache"]
               ELSE IF ~apiKey
                    THEN fallbackLogic(@, cachedWeatherData)
                    ELSE [@ EXCEPT !.st = "fetching", !.requested = TRUE]]
    /\ UNCHANGED <<wnow, apiKey, cacheFile, cachedWeatherData, lastFetchTime, inits, fetched>>
    /\ UNCHANGED <<parseVars, serverVars, octoVars, garageVars, appVars>>

\* Lines 76-84: the API answers with a forecast, which is stored in memory.
AxiosResolves(c) ==
    /\ calls[c].st = "fetching"
    /\ LET forecast == IF fetched = NoFetch THEN OldForecast + 1 ELSE fetched.forecast + 1
           timestamp == wnow
       IN  /\ forecast <= OldForecast + MaxFetches
           /\ cachedWeatherData' = forecast
           /\ lastFetchTime' = timestamp
           /\ calls' = [calls EXCEPT ![c] =
                  [@ EXCEPT !.st = "writing", !.forecast = forecast, !.timestamp = timestamp]]
           /\ fetched' = [at |-> timestamp, forecast |-> forecast]
    /\ UNCHANGED <<wnow, apiKey, cacheFile, inits>>
    /\ UNCHANGED <<parseVars, serverVars, octoVars, garageVars, appVars>>

\* Lines 76, 89-115 and 134-141: the request fails.
AxiosRejects(c) ==
    /\ calls[c].st = "fetching"
    /\ calls' = [calls EXCEPT ![c] = fallbackLogic(@, cachedWeatherData)]
    /\ UNCHANGED <<wnow, apiKey, cacheFile, cachedWeatherData, lastFetchTime, inits, fetched>>
    /\ UNCHANGED <<parseVars, serverVars, octoVars, garageVars, appVars>>

\* Lines 84-87: the cache file is written and the fetched forecast returned.
WriteFileResolves(c) ==
    /\ calls[c].st = "writing"
    /\ cacheFile' = WeatherFile("json", calls[c].forecast, calls[c].timestamp)
    /\ calls' = [calls EXCEPT ![c] =
           [@ EXCEPT !.st = "resolved", !.value = calls[c].forecast, !.via = "fetch"]]
    /\ UNCHANGED <<wnow, apiKey, cachedWeatherData, lastFetchTime, inits, fetched>>
    /\ UNCHANGED <<parseVars, serverVars, octoVars, garageVars, appVars>>

\* Lines 84-85, 89-115 and 134-141: mkdir or writeFile fails.
WriteFileRejects(c) ==
    /\ calls[c].st = "writing"
    /\ calls' = [calls EXCEPT ![c] = fallbackLogic(@, cachedWeatherData)]
    /\ UNCHANGED <<wnow, apiKey, cacheFile, cachedWeatherData, lastFetchTime, inits, fetched>>
    /\ UNCHANGED <<parseVars, serverVars, octoVars, garageVars, appVars>>

\* server.js lines 96-106: the endpoint sends the forecast, or status 500.
WeatherRespond(c) ==
    /\ calls[c].st \in {"resolved", "rejected"}
    /\ calls' = [calls EXCEPT ![c] = IdleCall]
    /\ UNCHANGED <<wnow, apiKey, cacheFile, cachedWeatherData, lastFetchTime, inits, fetched>>
    /\ UNCHANGED <<parseVars, serverVars, octoVars, garageVars, appVars>>

\* Time passes.
WeatherTick ==
    /\ wnow < WeatherNow0 + MaxWeatherTicks * WeatherTickHours
    /\ wnow' = wnow + WeatherTickHours
    /\ UNCHANGED <<apiKey, cacheFile, cachedWeatherData, lastFetchTime, inits, calls, fetched>>
    /\ UNCHANGED <<parseVars, serverVars, octoVars, garageVars, appVars>>

WeatherNext ==
    \/ \E p \in Inits : ReadFile(p)
    \/ \E p \in Inits : InitializeWeatherService(p)
    \/ \E c \in Calls : GetCachedOrFreshWeather(c)
    \/ \E c \in Calls : AxiosResolves(c)
    \/ \E c \in Calls : AxiosRejects(c)
    \/ \E c \in Calls : WriteFileResolves(c)
    \/ \E c \in Calls : WriteFileRejects(c)
    \/ \E c \in Calls : WeatherRespond(c)
    \/ WeatherTick

WeatherSpec == WeatherInit /\ [][WeatherNext]_vars

-----------------------------------------------------------------------------
(* getOctoPrintStatus (src/services/octoPrintService.js lines 1-76) behind *)
(* GET /api/octoprint/status (src/server.js lines 127-136).  Time is in    *)
(* milliseconds.  A status fetched from OctoPrint is a positive number,    *)
(* the later answer the larger; NoStatus is the null of line 5.  What a    *)
(* call returns is [kind, status] with kind "status" for a fetched or      *)
(* cached status, "disabled" for the default of lines 26-31 and "error"    *)
(* for the default of lines 68-74.  Requests to the endpoint overlap: a    *)
(* call suspends at axios.get while another one starts.                    *)

CACHE_DURATION_MS == 30000
AXIOS_TIMEOUT_MS == 5000

MaxOctoTicks == 13
MaxStatuses == 2

NoStatus == 0
OctoTickMs == AXIOS_TIMEOUT_MS \div 2
OctoNow0 == 2 * CACHE_DURATION_MS

Jobs == {"a", "b"}

NoGood == [now |-> 0, status |-> NoStatus]
Returns(kind, status) == [kind |-> kind, status |-> status]
IdleJob ==
    [st |-> "idle", now |-> 0, requested |-> FALSE, via |-> "", value |-> Returns("", NoStatus)]

OctoInit ==
    /\ ParserIdle
    /\ ServerIdle
    /\ WeatherIdle
    /\ GarageIdle
    /\ AppIdle
    /\ onow = OctoNow0
    /\ octoConfigured \in BOOLEAN
    /\ cachedStatus = NoStatus
    /\ lastStatusFetchTime = 0
    /\ jobs = [c \in Jobs |-> IdleJob]
    /\ lastGood = NoGood

\* Lines 12-36: a call of getOctoPrintStatus up to the request.
GetOctoPrintStatus(c) ==
    /\ jobs[c].st = "idle"
    /\ LET calledAt == onow
       IN  jobs' = [jobs EXCEPT ![c] =
               IF cachedStatus # NoStatus /\ (calledAt - lastStatusFetchTime) < CACHE_DURATION_MS
               THEN [@ EXCEPT !.st = "resolved", !.via = "cache",
                              !.value = Returns("status", cachedStatus)]
               ELSE IF ~octoConfigured
                    THEN [@ EXCEPT !.st = "resolved", !.via = "unconfigured",
                                   !.value = Returns("disabled", NoStatus)]
                    ELSE [@ EXCEPT !.st = "fetching", !.now = calledAt, !.requested = TRUE]]
    /\ UNCHANGED <<onow, octoConfigured, cachedStatus, lastStatusFetchTime, lastGood>>
    /\ UNCHANGED <<parseVars, serverVars, weatherVars, garageVars, appVars>>

\* Lines 36-59: OctoPrint answers within the timeout; the status is cached and returned.
OctoResolves(c) ==
    /\ jobs[c].st = "fetching"
    /\ onow - jobs[c].now < AXIOS_TIMEOUT_MS
    /\ lastGood.status < MaxStatuses
    /\ LET status == lastGood.status + 1
       IN  /\ cachedStatus' = status
           /\ lastStatusFetchTime' = jobs[c].now
           /\ jobs' = [jobs EXCEPT ![c] =
                  [@ EXCEPT !.st = "resolved", !.via = "fetch",
                            !.value = Returns("status", status)]]
           /\ lastGood' = [now |-> IF jobs[c].now > lastGood.now THEN jobs[c].now
                                   ELSE lastGood.now,
                           status |-> status]
    /\ UNCHANGED <<onow, octoConfigured>>
    /\ UNCHANGED <<parseVars, serverVars, weatherVars, garageVars, appVars>>

\* Lines 64-74: what the catch block returns.
cachedOrDefault(held) ==
    IF held # NoStatus THEN Returns("status", held) ELSE Returns("error", NoStatus)

\* Lines 36 and 60-75: the request fails (or the answer cannot be read).
OctoRejects(c) ==
    /\ jobs[c].st = "fetching"
    /\ jobs' = [jobs EXCEPT ![c] =
           [@ EXCEPT !.st = "resolved", !.via = "catch", !.value = cachedOrDefault(cachedStatus)]]
    /\ UNCHANGED <<onow, octoConfigured, cachedStatus, lastStatusFetchTime, lastGood>>
    /\ UNCHANGED <<parseVars, serverVars, weatherVars, garageVars, appVars>>

\* server.js lines 127-136: the endpoint sends the status.
OctoRespond(c) ==
    /\ jobs[c].st = "resolved"
    /\ jobs' = [jobs EXCEPT ![c] = IdleJob]
    /\ UNCHANGED <<onow, octoConfigured, cachedStatus, lastStatusFetchTime, lastGood>>
    /\ UNCHANGED <<parseVars, serverVars, weatherVars, garageVars, appVars>>

\* Time passes.
OctoTick ==
    /\ onow < OctoNow0 + MaxOctoTicks * OctoTickMs
    /\ onow' = onow + OctoTickMs
    /\ UNCHANGED <<octoConfigured, cachedStatus, lastStatusFetchTime, jobs, lastGood>>
    /\ UNCHANGED <<parseVars, serverVars, weatherVars, garageVars, appVars>>

OctoNext ==
    \/ \E c \in Jobs : GetOctoPrintStatus(c)
    \/ \E c \in Jobs : OctoResolves(c)
    \/ \E c \in Jobs : OctoRejects(c)
    \/ \E c \in Jobs : OctoRespond(c)
    \/ OctoTick

OctoSpec == OctoInit /\ [][OctoNext]_vars

-----------------------------------------------------------------------------
(* The garage door service (src/services/octoPrintService.js lines 78-194) *)
(* behind GET /api/garage/door/state (src/server.js lines 139-148).  The   *)
(* environment is [broker, credentials, disabled]: MQTT_BROKER is set,     *)
(* MQTT_USERNAME and MQTT_PASSWORD are both set, MQTT_ENABLED is 'false'.  *)
(* clients is the sequence of the clients mqtt.connect has created, each   *)
(* [connected, ended]; mqttClient is the index of one of them, or NoClient *)
(* for null.  A client that was not ended keeps reconnecting and emits     *)
(* events; an ended client emits none.  The three exported functions are   *)
(* synchronous, so a call is one step; they are called in any order.       *)

MaxClients == 3

NoClient == 0
GarageNow0 == 1
DoorStates == {"open", "closed"}

DisabledDefault ==
    [state |-> "null", lastUpdate |-> 0, connected |-> FALSE,
     connectionStatus |-> "undefined", enabled |-> FALSE]

GarageInit ==
    /\ ParserIdle
    /\ ServerIdle
    /\ WeatherIdle
    /\ OctoIdle
    /\ AppIdle
    /\ mqttEnv \in [broker : BOOLEAN, credentials : BOOLEAN, disabled : BOOLEAN]
    /\ clients = <<>>
    /\ mqttClient = NoClient
    /\ cachedState = "null"
    /\ lastUpdateTime = 0
    /\ connectionStatus = "disconnected"
    /\ gres = DisabledDefault
    /\ lastCall = "load"

\* Lines 88-114: the body of initializeGarageDoorService; TRUE if it goes on to connect.
Connects ==
    /\ mqttEnv.broker /\ mqttEnv.credentials
    /\ ~(mqttClient # NoClient /\ clients[mqttClient].connected)

\* Lines 88-153: initializeGarageDoorService.
InitializeGarageDoorService ==
    /\ Connects => Len(clients) < MaxClients
    /\ IF Connects
       THEN /\ clients' = Append(clients, [connected |-> FALSE, ended |-> FALSE])
            /\ mqttClient' = Len(clients) + 1
       ELSE UNCHANGED <<clients, mqttClient>>
    /\ lastCall' = "initializeGarageDoorService"
    /\ UNCHANGED <<mqttEnv, cachedState, lastUpdateTime, connectionStatus, gres>>
    /\ UNCHANGED <<parseVars, serverVars, weatherVars, octoVars, appVars>>

\* Lines 159-182: getGarageDoorState.
GetGarageDoorState ==
    /\ (mqttClient = NoClient /\ Connects) => Len(clients) < MaxClients
    /\ IF ~mqttEnv.broker /\ mqttEnv.disabled
       THEN /\ gres' = DisabledDefault
            /\ UNCHANGED <<clients, mqttClient>>
       ELSE /\ IF mqttClient = NoClient /\ Connects
               THEN /\ clients' = Append(clients, [connected |-> FALSE, ended |-> FALSE])
                    /\ mqttClient' = Len(clients) + 1
               ELSE UNCHANGED <<clients, mqttClient>>
            /\ gres' = [state |-> cachedState, lastUpdate |-> lastUpdateTime,
                        connected |-> IF mqttClient' # NoClient
                                      THEN clients'[mqttClient'].connected ELSE FALSE,
                        connectionStatus |-> connectionStatus, enabled |-> TRUE]
    /\ lastCall' = "getGarageDoorState"
    /\ UNCHANGED <<mqttEnv, cachedState, lastUpdateTime, connectionStatus>>
    /\ UNCHANGED <<parseVars, serverVars, weatherVars, octoVars, appVars>>

\* Lines 187-194: disconnectGarageDoor.
DisconnectGarageDoor ==
    /\ IF mqttClient # NoClient
       THEN /\ clients' = [clients EXCEPT ![mqttClient] = [connected |-> FALSE, ended |-> TRUE]]
            /\ mqttClient' = NoClient
            /\ connectionStatus' = "disconnected"
       ELSE UNCHANGED <<clients, mqttClient, connectionStatus>>
    /\ lastCall' = "disconnectGarageDoor"
    /\ UNCHANGED <<mqttEnv, cachedState, lastUpdateTime, gres>>
    /\ UNCHANGED <<parseVars, serverVars, weatherVars, octoVars, appVars>>

\* Lines 116-129: a client connects and subscribes, with or without success.
OnConnect(i) ==
    /\ ~clients[i].ended /\ ~clients[i].connected
    /\ clients' = [clients EXCEPT ![i].connected = TRUE]
    /\ connectionStatus' \in {"connected", "error"}
    /\ lastCall' = "connect"
    /\ UNCHANGED <<mqttEnv, mqttClient, cachedState, lastUpdateTime, gres>>
    /\ UNCHANGED <<parseVars, serverVars, weatherVars, octoVars, appVars>>

\* Lines 131-137: a message arrives on the topic.
OnMessage(i) ==
    /\ ~clients[i].ended /\ clients[i].connected
    /\ cachedState' \in DoorStates
    /\ lastUpdateTime' = GarageNow0
    /\ lastCall' = "message"
    /\ UNCHANGED <<mqttEnv, clients, mqttClient, connectionStatus, gres>>
    /\ UNCHANGED <<parseVars, serverVars, weatherVars, octoVars, appVars>>

\* Lines 139-142: a client reports an error.
OnError(i) ==
    /\ ~clients[i].ended
    /\ connectionStatus' = "error"
    /\ lastCall' = "error"
    /\ UNCHANGED <<mqttEnv, clients, mqttClient, cachedState, lastUpdateTime, gres>>
    /\ UNCHANGED <<parseVars, serverVars, weatherVars, octoVars, appVars>>

\* Lines 144-147: a client loses its connection.
OnOffline(i) ==
    /\ ~clients[i].ended /\ clients[i].connected
    /\ clients' = [clients EXCEPT ![i].connected = FALSE]
    /\ connectionStatus' = "offline"
    /\ lastCall' = "offline"
    /\ UNCHANGED <<mqttEnv, mqttClient, cachedState, lastUpdateTime, gres>>
    /\ UNCHANGED <<parseVars, serverVars, weatherVars, octoVars, appVars>>

\* Lines 149-152: a client that is not connected starts a reconnection attempt.
OnReconnect(i) ==
    /\ ~clients[i].ended /\ ~clients[i].connected
    /\ connectionStatus' = "reconnecting"
    /\ lastCall' = "reconnect"
    /\ UNCHANGED <<mqttEnv, clients, mqttClient, cachedState, lastUpdateTime, gres>>
    /\ UNCHANGED <<parseVars, serverVars, weatherVars, octoVars, appVars>>

GarageNext ==
    \/ InitializeGarageDoorService
    \/ GetGarageDoorState
    \/ DisconnectGarageDoor
    \/ \E i \in DOMAIN clients : OnConnect(i)
    \/ \E i \in DOMAIN clients : OnMessage(i)
    \/ \E i \in DOMAIN clients : OnError(i)
    \/ \E i \in DOMAIN clients : OnOffline(i)
    \/ \E i \in DOMAIN clients : OnReconnect(i)

GarageSpec == GarageInit /\ [][GarageNext]_vars

-----------------------------------------------------------------------------
(* The App component (src/src/App.js): the state startDate (line 112), the *)
(* ref logicalDateRef (line 117), the interval callback of the time-update *)
(* effect (lines 209-241) and the week buttons (lines 356-364).  moment is *)
(* modelled by what it computes in the browser's zone, taken to be         *)
(* America/New_York: startOf('isoWeek') is the local midnight of the       *)
(* Monday of the week, isoWeek() the ISO 8601 week number (the week of a   *)
(* year's first Thursday is week 1), add(n, 'week') moves the local date   *)
(* by 7n days and keeps the wall time.  The interval callback runs every   *)
(* TIME_UPDATE_INTERVAL_SECONDS while the page runs; the clock may advance *)
(* by more than that between two callbacks when the device sleeps.         *)

LOGICAL_OFFSET_HOURS == 4

MaxAppSteps == 4
MaxWeeksAway == 2

startOfIsoWeek(t) ==
    FromObjectMidnight(NY, LocalDay(NY, t) - WeekdayOf(LocalDay(NY, t)))

isoWeek(t) ==
    LET thursday == LocalDay(NY, t) - WeekdayOf(LocalDay(NY, t)) + 3
    IN  (thursday - DayOf(YearOf(thursday), 1, 1)) \div 7 + 1

isSameDay(a, b) == LocalDay(NY, a) = LocalDay(NY, b)

addWeeks(t, n) == FromObjectMidnight(NY, LocalDay(NY, t) + 7 * n) + LocalTod(NY, t)

\* The instants at which the page is loaded: Sunday evenings before the logical week
\* changes (the day of the fall-back of 2024, the last Sunday of ISO year 2024, an ordinary
\* Sunday) and a Wednesday noon.
Mounts ==
    {Local(NY, 2024, 11, 3, 19, 0), Local(NY, 2024, 12, 29, 19, 0),
     Local(NY, 2024, 11, 17, 19, 30), Local(NY, 2024, 11, 13, 12, 0)}

\* How far the clock advances in one step: an hour, a day, a week.
Advances == {MinPerHour, MinPerDay, 7 * MinPerDay}

AppInit ==
    /\ ParserIdle
    /\ ServerIdle
    /\ WeatherIdle
    /\ OctoIdle
    /\ GarageIdle
    /\ anow \in Mounts
    /\ weekStartDate = startOfIsoWeek(anow)
    /\ logicalDateRef = anow + LOGICAL_OFFSET_HOURS * MinPerHour
    /\ elapsed = 0
    /\ clicked = FALSE
    /\ appLast = "mount"

\* The updater of a tick that follows the logical week whatever week is displayed.
followLogicalWeek(prevStartDate, prevLogicalDate, effectiveNowMoment) ==
    IF isoWeek(prevLogicalDate) # isoWeek(effectiveNowMoment)
    THEN startOfIsoWeek(effectiveNowMoment)
    ELSE prevStartDate

\* Lines 221-235: the start week after a tick.
tickStartDate(prevStartDate, prevLogicalDate, effectiveNowMoment) ==
    LET previousLogicalWeek == isoWeek(prevLogicalDate)
        currentLogicalWeek == isoWeek(effectiveNowMoment)
        displayedTopRowWeekStart == startOfIsoWeek(prevStartDate)
        previousMomentWeekStart == startOfIsoWeek(prevLogicalDate)
    IN  IF previousLogicalWeek # currentLogicalWeek
        THEN IF isSameDay(displayedTopRowWeekStart, previousMomentWeekStart)
             THEN startOfIsoWeek(effectiveNowMoment)
             ELSE prevStartDate
        ELSE prevStartDate

\* Lines 211-237: the interval callback.
TimeTick ==
    /\ LET effectiveNowMoment == anow + LOGICAL_OFFSET_HOURS * MinPerHour
       IN  /\ weekStartDate' = tickStartDate(weekStartDate, logicalDateRef, effectiveNowMoment)
           /\ logicalDateRef' = effectiveNowMoment
    /\ appLast' = "tick"
    /\ UNCHANGED <<anow, elapsed, clicked>>
    /\ UNCHANGED <<parseVars, serverVars, weatherVars, octoVars, garageVars>>

\* The displayed week is at most MaxWeeksAway weeks from the week of the clock.
Near(t) ==
    /\ LocalDay(NY, t) - LocalDay(NY, startOfIsoWeek(anow)) <= 7 * MaxWeeksAway
    /\ LocalDay(NY, startOfIsoWeek(anow)) - LocalDay(NY, t) <= 7 * MaxWeeksAway

\* Lines 356-358: the Next button.
handleNextWeek ==
    /\ Near(addWeeks(weekStartDate, 1))
    /\ weekStartDate' = addWeeks(weekStartDate, 1)
    /\ clicked' = TRUE
    /\ appLast' = "next"
    /\ UNCHANGED <<anow, logicalDateRef, elapsed>>
    /\ UNCHANGED <<parseVars, serverVars, weatherVars, octoVars, garageVars>>

\* Lines 362-364: the Prev button.
handlePrevWeek ==
    /\ Near(addWeeks(weekStartDate, 0 - 1))
    /\ weekStartDate' = addWeeks(weekStartDate, 0 - 1)
    /\ clicked' = TRUE
    /\ appLast' = "prev"
    /\ UNCHANGED <<anow, logicalDateRef, elapsed>>
    /\ UNCHANGED <<parseVars, serverVars, weatherVars, octoVars, garageVars>>

\* Time passes.
AppTime ==
    /\ elapsed < MaxAppSteps
    /\ \E d \in Advances : anow' = anow + d
    /\ elapsed' = elapsed + 1
    /\ appLast' = "time"
    /\ UNCHANGED <<weekStartDate, logicalDateRef, clicked>>
    /\ UNCHANGED <<parseVars, serverVars, weatherVars, octoVars, garageVars>>

AppNext ==
    \/ TimeTick
    \/ handleNextWeek
    \/ handlePrevWeek
    \/ AppTime

AppSpec == AppInit /\ [][AppNext]_vars

-----------------------------------------------------------------------------
(* Properties.  The events of allEvents that the i-th VEVENT of the feed   *)
(* produced are those carrying its summary or the summary of one of its    *)
(* override records; no two VEVENTs of an explored feed share a summary.   *)

Returned == pc = "returned"

TitlesOf(item) ==
    {item.summary} \cup {item.recurrences[j].summary : j \in DOMAIN item.recurrences}

IsOf(e, item) == e.title \in TitlesOf(item)

EventsOf(item) == SelectSeq(allEvents, LAMBDA e : IsOf(e, item))

SingleTimed(item) == item.rrule = NoRule /\ item.datetype = "date-time"

\* C1: a non-recurring timed event yields exactly one occurrence, with allDay false and
\* the event's own start and end, if start < rangeEnd and end > rangeStart, and no
\* occurrence otherwise.
C1_SingleTimedOverlap ==
    Returned =>
        \A i \in DOMAIN feed :
            SingleTimed(feed[i]) =>
                EventsOf(feed[i]) =
                    IF feed[i].start < endRange /\ feed[i].end > startRange
                    THEN <<[title |-> feed[i].summary, start |-> feed[i].start,
                            end |-> feed[i].end, allDay |-> "false"]>>
                    ELSE <<>>

\* A timed event that starts before the window and ends inside it has been returned.
C1_Witness ==
    /\ Returned
    /\ \E i \in DOMAIN feed :
          /\ SingleTimed(feed[i])
          /\ feed[i].start < startRange
          /\ feed[i].end > startRange
          /\ Len(EventsOf(feed[i])) = 1

Recurring(item) == item.rrule # NoRule

\* C2: no occurrence returned for a recurring event, override records included, lies on
\* the local date of one of the event's EXDATEs.
C2_NoOccurrenceOnExdate ==
    Returned =>
        \A i \in DOMAIN feed :
            Recurring(feed[i]) =>
                \A j \in DOMAIN EventsOf(feed[i]) :
                    LocalDay(timezone, EventsOf(feed[i])[j].start)
                        \notin exdateDatesSet(feed[i], timezone)

OnLocalDay(es, n) == SelectSeq(es, LAMBDA e : LocalDay(timezone, e.start) = n)

InWindow(t) == startRange <= t /\ t <= endRange

overrideEvent(item, recurrence) ==
    [title |-> IF recurrence.summary # "" THEN recurrence.summary ELSE item.summary,
     start |-> recurrence.start, end |-> recurrence.end, allDay |-> "undefined"]

\* C3: when an override record of a recurring event is anchored on the local date D
\* inside the window (and itself starts on D inside the window), the result holds exactly
\* one occurrence of the event on D, and it is the override's.
C3_OverrideReplacesBase ==
    Returned =>
        \A i \in DOMAIN feed :
            Recurring(feed[i]) =>
                \A j \in DOMAIN feed[i].recurrences :
                    LET recurrence == feed[i].recurrences[j]
                        D == LocalDay(timezone, recurrence.recurrenceid)
                    IN  (/\ InWindow(recurrence.recurrenceid)
                         /\ InWindow(recurrence.start)
                         /\ LocalDay(timezone, recurrence.start) = D)
                        => OnLocalDay(EventsOf(feed[i]), D)
                              = <<overrideEvent(feed[i], recurrence)>>

RecurringTimed(item) == Recurring(item) /\ item.datetype = "date-time"

\* The occurrences the base rule of an event produced (the override branch sets no
\* allDay).
BaseEventsOf(item) == SelectSeq(EventsOf(item), LAMBDA e : e.allDay # "undefined")

\* The wall time tod exists on the local day n (it is not inside a spring-forward gap).
WallTimeExists(tz, n, tod) == LocalTod(tz, WallInstant(tz, n, tod)) = tod

SameWallTime(item, e) == LocalTod(timezone, e.start) = LocalTod(timezone, item.start)

\* The UTC time of day of e is the anchor's, moved by the change of the zone's offset
\* between the anchor and e.
UtcShiftedByOffsetChange(item, e) ==
    UtcTod(e.start) =
        (UtcTod(item.start) - (Offset(timezone, e.start) - Offset(timezone, item.start))
            + MinPerDay) % MinPerDay

\* C4 as stated: every base occurrence of a recurring timed event has the wall-clock hour
\* and minute of the anchor's start, and a UTC time of day that differs from the anchor's
\* by exactly the change of the zone's offset.
C4_WallTimeAlways ==
    Returned =>
        \A i \in DOMAIN feed :
            RecurringTimed(feed[i]) =>
                \A j \in DOMAIN BaseEventsOf(feed[i]) :
                    /\ SameWallTime(feed[i], BaseEventsOf(feed[i])[j])
                    /\ UtcShiftedByOffsetChange(feed[i], BaseEventsOf(feed[i])[j])

\* C4 as amended: the same, except on a local date on which the anchor's wall time does
\* not exist (it lies in the spring-forward gap): there the occurrence starts later on
\* the wall clock by the length of the gap.
C4_WallTimeUnlessGap ==
    Returned =>
        \A i \in DOMAIN feed :
            RecurringTimed(feed[i]) =>
                \A j \in DOMAIN BaseEventsOf(feed[i]) :
                    LET e == BaseEventsOf(feed[i])[j]
                        tod == LocalTod(timezone, feed[i].start)
                    IN  IF WallTimeExists(timezone, LocalDay(timezone, e.start), tod)
                        THEN SameWallTime(feed[i], e) /\ UtcShiftedByOffsetChange(feed[i], e)
                        ELSE LocalTod(timezone, e.start) = tod + MinPerHour

\* A base occurrence on the other side of a transition from its anchor has been returned
\* with the anchor's wall time.
C4_Witness ==
    /\ Returned
    /\ \E i \in DOMAIN feed :
          /\ RecurringTimed(feed[i])
          /\ \E j \in DOMAIN BaseEventsOf(feed[i]) :
                /\ Offset(timezone, BaseEventsOf(feed[i])[j].start)
                      # Offset(timezone, feed[i].start)
                /\ SameWallTime(feed[i], BaseEventsOf(feed[i])[j])

\* The event and the window of the "Recurring Events and DST" test: FREQ=WEEKLY;BYDAY=TU
\* from 2024-10-29 20:30 to 21:30 New York time, asked for 2024-10-28 to 2024-11-06.
C5_Event ==
    Item("Event", "date-time", Local(NY, 2024, 10, 29, 20, 30), Local(NY, 2024, 10, 29, 21, 30),
         Rule("WEEKLY", 1, 0, NoUntil, {1}, {}, {}), {}, <<>>)

C5_Scenario ==
    /\ Returned
    /\ timezone = NY
    /\ feed = <<C5_Event>>
    /\ startRange = Local(NY, 2024, 10, 28, 0, 0)
    /\ endRange = Local(NY, 2024, 11, 6, 0, 0)

\* C5: in that scenario parseIcsData returns exactly two occurrences, starting at
\* 2024-10-30T00:30Z and 2024-11-06T01:30Z.
C5_TwoOccurrences ==
    C5_Scenario =>
        [i \in DOMAIN allEvents |-> allEvents[i].start]
            = <<Utc(2024, 10, 30, 0, 30), Utc(2024, 11, 6, 1, 30)>>

\* The scenario has been run to its end.
C5_Witness == C5_Scenario /\ Len(allEvents) = 2

\* A non-recurring all-day event with a first local day before its (exclusive) end.
SingleAllDay(item) ==
    item.rrule = NoRule /\ item.datetype = "date" /\ item.start < item.end

FirstDay(item) == LocalDay(timezone, item.start)
LastDay(item) == LocalDay(timezone, item.end - 1)
SpanDays(item) == LastDay(item) - FirstDay(item) + 1

SpanInWindow(item) == startRange <= item.start /\ item.end - 1 <= endRange

\* C6: a non-recurring all-day event of N local days whose span lies inside the window
\* yields exactly N occurrences, on the N consecutive local dates of the span, each with
\* allDay true, starting at the local midnight and ending at the local end of its day.
C6_OnePerDay ==
    Returned =>
        \A i \in DOMAIN feed :
            (SingleAllDay(feed[i]) /\ SpanInWindow(feed[i])) =>
                EventsOf(feed[i]) =
                    [j \in 1..SpanDays(feed[i]) |->
                        [title |-> feed[i].summary,
                         start |-> FromObjectMidnight(timezone, FirstDay(feed[i]) + j - 1),
                         end |-> FromObjectMidnight(timezone, FirstDay(feed[i]) + j) - 1,
                         allDay |-> "true"]]

\* An all-day event of several days, one of them the day of a zone transition, has been
\* split inside its window.
C6_Witness ==
    /\ Returned
    /\ \E i \in DOMAIN feed :
          /\ SingleAllDay(feed[i])
          /\ SpanInWindow(feed[i])
          /\ SpanDays(feed[i]) >= 2
          /\ Offset(timezone, feed[i].start) # Offset(timezone, feed[i].end)
          /\ Len(EventsOf(feed[i])) = SpanDays(feed[i])

\* A recurring all-day event whose rule is yearly with one BYMONTHDAY and no BYMONTH.
FaultyYearlyAllDay(item) ==
    /\ Recurring(item)
    /\ item.datetype = "date"
    /\ item.rrule.freq = "YEARLY"
    /\ item.rrule.interval = 1
    /\ item.rrule.count = 0 /\ item.rrule.until = NoUntil
    /\ item.rrule.bymonth = {} /\ item.rrule.byweekday = {}
    /\ Cardinality(item.rrule.bymonthday) = 1

LocalMonth(t) == MonthOf(LocalDay(timezone, t))
LocalYear(t) == YearOf(LocalDay(timezone, t))

\* The local midnights of the rule's day in the anchor's month, one per year, from the
\* anchor on.
YearlyDates(item) ==
    {FromObjectMidnight(timezone, DayOf(y, LocalMonth(item.start), d)) :
        y \in LocalYear(item.start)..LocalYear(endRange), d \in item.rrule.bymonthday}
      \ {t \in Int : t < item.start}

EventsInYear(item, y) ==
    {j \in DOMAIN EventsOf(item) : LocalYear(EventsOf(item)[j].start) = y}

\* The event and the window of the "faulty annual event rule" test: an all-day event on
\* 2024-12-08 with FREQ=YEARLY;BYMONTHDAY=8, asked for 2024-11-01 to 2025-02-01.
C7_Scenario ==
    /\ Returned
    /\ timezone = NY
    /\ feed = <<AllDayItem(NY, DayOf(2024, 12, 8), 1,
                           Rule("YEARLY", 1, 0, NoUntil, {}, {8}, {}), {})>>
    /\ startRange = Local(NY, 2024, 11, 1, 0, 0)
    /\ endRange = Local(NY, 2025, 2, 1, 0, 0)

IteratedRule(item) ==
    IF item.datetype = "date" THEN ParseOptions(ruleOptions(item, timezone), item.start)
    ELSE ParseOptions(newRRuleLine(item), item.start)

YearlyWithoutMonth(item) ==
    Recurring(item) /\ item.rrule.freq = "YEARLY" /\ item.rrule.bymonth = {}

OtherRuleFields == {"freq", "interval", "count", "until", "byweekday", "bymonthday"}

\* C8: for every recurring event, timed or all-day, whose rule is yearly and names no
\* month, the rule that is iterated names the month of the event's start (read in the
\* target zone or in UTC) and no other, its other fields are those of the decoded rule,
\* and so every occurrence of the event falls in the month of its start.
C8_NormalizedEverywhere ==
    Returned =>
        \A i \in DOMAIN feed :
            YearlyWithoutMonth(feed[i]) =>
                /\ IteratedRule(feed[i]).bymonth \in
                      {{LocalMonth(feed[i].start)}, {MonthOf(UtcDay(feed[i].start))}}
                /\ \A f \in OtherRuleFields :
                      IteratedRule(feed[i])[f] = ParseOptions(feed[i].rrule, feed[i].start)[f]
                /\ \A j \in DOMAIN BaseEventsOf(feed[i]) :
                      LocalMonth(BaseEventsOf(feed[i])[j].start) = LocalMonth(feed[i].start)

\* C9: every returned event starts before it ends.
C9_StartBeforeEnd ==
    Returned => \A j \in DOMAIN allEvents : allEvents[j].start < allEvents[j].end

\* C10: the events one VEVENT produced stand in allEvents in ascending order of start.
C10_AscendingPerEvent ==
    Returned =>
        \A i \in DOMAIN feed :
            \A a, b \in DOMAIN EventsOf(feed[i]) :
                a < b => EventsOf(feed[i])[a].start <= EventsOf(feed[i])[b].start

\* The VEVENT as it would be without its rule, when the rule has no usable frequency.
WithoutBrokenRule(item) ==
    IF InvalidFrequency(item) THEN [item EXCEPT !.rrule = NoRule] ELSE item

Threw == pc = "threw"

\* C15: parseIcsData raises no error for an event whose rule has a missing or
\* unrecognized frequency, and what it returns is what it returns for the same feed with
\* that event stripped of its rule.
C15_BrokenRuleDegrades ==
    /\ ~Threw
    /\ Returned =>
          allEvents = parseIcsData([i \in DOMAIN feed |-> WithoutBrokenRule(feed[i])], 1,
                                   timezone, startRange, endRange)

\* C16: no base occurrence of a recurring timed event is returned on the local date of
\* the RECURRENCE-ID of one of the event's override records, whether or not the rule's
\* instant for that date equals the RECURRENCE-ID.
C16_OverrideMatchedByDate ==
    Returned =>
        \A i \in DOMAIN feed :
            RecurringTimed(feed[i]) =>
                \A j \in DOMAIN feed[i].recurrences :
                    OnLocalDay(BaseEventsOf(feed[i]),
                               LocalDay(timezone, feed[i].recurrences[j].recurrenceid)) = <<>>

\* The UTC days on which a rule date can bear on the window.
CandidateDays == (UtcDay(startRange) - 2)..(UtcDay(endRange) + 2)

\* The rule of the timed event has a date on UTC day n that neither an override record
\* nor an EXDATE takes away.
BaseCandidate(item, n) ==
    /\ Occurs(IteratedRule(item), item.start, n)
    /\ RuleInstant(item.start, n) \notin modifiedRecurrenceIds(item)
    /\ LocalDay(timezone, correctedStart(item, timezone, RuleInstant(item.start, n)))
          \notin exdateDatesSet(item, timezone)

\* The event the code makes of the rule date on UTC day n.
CandidateEvent(item, n) ==
    LET cs == correctedStart(item, timezone, RuleInstant(item.start, n))
    IN  [title |-> item.summary, start |-> cs,
         end |-> cs + (item.end - item.start), allDay |-> "false"]

Emitted(item, e) == \E j \in DOMAIN BaseEventsOf(item) : BaseEventsOf(item)[j] = e

Overlaps(e) == e.start < endRange /\ e.end > startRange

\* C17: a base occurrence of a recurring timed event is returned if and only if its
\* interval, with the wall time corrected, overlaps the window.
C17_TimedOverlapFilter ==
    Returned =>
        \A i \in DOMAIN feed :
            RecurringTimed(feed[i]) =>
                \A n \in CandidateDays :
                    BaseCandidate(feed[i], n) =>
                        (Emitted(feed[i], CandidateEvent(feed[i], n))
                            <=> Overlaps(CandidateEvent(feed[i], n)))

RecurringAllDay(item) == Recurring(item) /\ item.datetype = "date"

\* C18: for a recurring all-day event, every date of the rule whose local midnight lies
\* in the window and that no EXDATE names is returned.
C18_NoAllDayDropped ==
    Returned =>
        \A i \in DOMAIN feed :
            RecurringAllDay(feed[i]) =>
                \A n \in CandidateDays :
                    (/\ Occurs(ruleOptions(feed[i], timezone), feed[i].start, n)
                     /\ InWindow(FromObjectMidnight(timezone, n))
                     /\ n \notin exdateDatesSet(feed[i], timezone))
                        => \E j \in DOMAIN EventsOf(feed[i]) :
                              EventsOf(feed[i])[j].start = FromObjectMidnight(timezone, n)

\* The base occurrences parseIcsData makes of the event when its EXDATEs are taken out.
BaseEventsWithoutExdate(item) ==
    SelectSeq(recurringTimed([item EXCEPT !.exdate = {}], timezone, startRange, endRange),
              LAMBDA e : e.allDay # "undefined")

ExdateDays(item) == {LocalDay(timezone, ex) : ex \in item.exdate}

\* C19: for a recurring timed event no base occurrence is returned on the local date of
\* an EXDATE, and the base occurrences returned are those the event has without the
\* EXDATE that lie on other dates, with the same start and end and in the same order.
C19_ExdateRemovesItsDate ==
    Returned =>
        \A i \in DOMAIN feed :
            RecurringTimed(feed[i]) =>
                /\ \A n \in ExdateDays(feed[i]) : OnLocalDay(BaseEventsOf(feed[i]), n) = <<>>
                /\ BaseEventsOf(feed[i])
                      = SelectSeq(BaseEventsWithoutExdate(feed[i]),
                                  LAMBDA e : LocalDay(timezone, e.start)
                                                \notin ExdateDays(feed[i]))

\* An EXDATE has taken an occurrence of the window away and left another one, in a
\* series whose UTC date differs from its local date.
C19_Witness ==
    /\ Returned
    /\ \E i \in DOMAIN feed :
          /\ RecurringTimed(feed[i])
          /\ UtcDay(feed[i].start) # LocalDay(timezone, feed[i].start)
          /\ \E n \in ExdateDays(feed[i]) : OnLocalDay(BaseEventsWithoutExdate(feed[i]), n) # <<>>
          /\ BaseEventsOf(feed[i]) # <<>>
          /\ Len(BaseEventsOf(feed[i])) < Len(BaseEventsWithoutExdate(feed[i]))

\* C20: every base occurrence of a recurring timed event lasts as long as the event
\* itself: end - start equals the event's DTEND - DTSTART in elapsed time.
C20_DurationPreserved ==
    Returned =>
        \A i \in DOMAIN feed :
            RecurringTimed(feed[i]) =>
                \A j \in DOMAIN BaseEventsOf(feed[i]) :
                    BaseEventsOf(feed[i])[j].end - BaseEventsOf(feed[i])[j].start
                        = feed[i].end - feed[i].start

\* A base occurrence has been returned that begins before a transition of the zone and
\* ends after it.
C20_Witness ==
    /\ Returned
    /\ \E i \in DOMAIN feed :
          /\ RecurringTimed(feed[i])
          /\ \E j \in DOMAIN BaseEventsOf(feed[i]) :
                /\ BaseEventsOf(feed[i])[j].start # feed[i].start
                /\ Offset(timezone, BaseEventsOf(feed[i])[j].start)
                      # Offset(timezone, BaseEventsOf(feed[i])[j].end)

\* C23: every returned event with allDay true starts at a local midnight of the target
\* zone, and that midnight lies in the window, bounds included.
C23_AllDayMidnightInWindow ==
    Returned =>
        \A j \in DOMAIN allEvents :
            allEvents[j].allDay = "true" =>
                /\ allEvents[j].start = StartOfDay(timezone, allEvents[j].start)
                /\ InWindow(allEvents[j].start)

\* A recurring all-day event has a rule date inside the padded range whose local midnight
\* is outside the window and was not returned, and another date that was returned.
C23_Witness ==
    /\ Returned
    /\ \E i \in DOMAIN feed :
          /\ RecurringAllDay(feed[i])
          /\ EventsOf(feed[i]) # <<>>
          /\ \E n \in CandidateDays :
                /\ Occurs(ruleOptions(feed[i], timezone), feed[i].start, n)
                /\ startRange - MinPerDay < RuleInstant(feed[i].start, n)
                /\ RuleInstant(feed[i].start, n) < endRange + MinPerDay
                /\ ~InWindow(FromObjectMidnight(timezone, n))
                /\ \A j \in DOMAIN allEvents :
                      allEvents[j].start # FromObjectMidnight(timezone, n)

\* A timed event that recurs every interval-th week on the weekday of its start, with no
\* COUNT, UNTIL, EXDATE or override record.
PlainWeekly(item) ==
    /\ RecurringTimed(item)
    /\ item.rrule.freq = "WEEKLY"
    /\ item.rrule.byweekday = {} /\ item.rrule.bymonthday = {} /\ item.rrule.bymonth = {}
    /\ item.rrule.count = 0 /\ item.rrule.until = NoUntil
    /\ item.exdate = {} /\ item.recurrences = <<>>

\* C24: every base occurrence of a weekly timed event lies on the local weekday of the
\* event's start, a whole number of periods of the rule after it, and at the wall time of
\* the start wherever that wall time exists on the date.
C24_OnDesignatedLocalDate ==
    Returned =>
        \A i \in DOMAIN feed :
            PlainWeekly(feed[i]) =>
                \A j \in DOMAIN BaseEventsOf(feed[i]) :
                    LET e == BaseEventsOf(feed[i])[j]
                        n == LocalDay(timezone, e.start)
                    IN  /\ (n - LocalDay(timezone, feed[i].start))
                                % (7 * feed[i].rrule.interval) = 0
                        /\ WallTimeExists(timezone, n, LocalTod(timezone, feed[i].start))
                              => SameWallTime(feed[i], e)

\* A timed event that recurs every week on several listed weekdays, with no COUNT, UNTIL,
\* EXDATE or override record.
SeveralWeekdays(item) ==
    /\ RecurringTimed(item)
    /\ item.rrule.freq = "WEEKLY" /\ item.rrule.interval = 1
    /\ Cardinality(item.rrule.byweekday) > 1
    /\ item.rrule.count = 0 /\ item.rrule.until = NoUntil
    /\ item.exdate = {} /\ item.recurrences = <<>>

\* C25: for a weekly timed event with several BYDAY weekdays the iterated rule keeps as
\* many weekdays as the event lists, and every listed local weekday from the start on
\* whose occurrence starts inside the window has an occurrence.
C25_AllWeekdaysKept ==
    Returned =>
        \A i \in DOMAIN feed :
            SeveralWeekdays(feed[i]) =>
                /\ Cardinality(IteratedRule(feed[i]).byweekday)
                      = Cardinality(feed[i].rrule.byweekday)
                /\ \A n \in LocalDay(timezone, startRange)..LocalDay(timezone, endRange) :
                      LET t == WallInstant(timezone, n, LocalTod(timezone, feed[i].start))
                      IN  (/\ n >= LocalDay(timezone, feed[i].start)
                           /\ WeekdayOf(n) \in feed[i].rrule.byweekday
                           /\ startRange < t /\ t < endRange)
                              => OnLocalDay(BaseEventsOf(feed[i]), n) # <<>>

-----------------------------------------------------------------------------
(* Properties of the server.                                               *)

\* The handler has answered a request that passed the checks of its body.
Sent == spc = "sent" /\ req.timezone # ""

Ascending(evs) == \A a, b \in DOMAIN evs : a < b => evs[a].start <= evs[b].start

\* C11: the list sent for a request is in ascending order of start, across all feeds.
C11_SortedAcrossFeeds ==
    (Sent /\ res.status = 200) => Ascending(res.body)

\* The feed of the URL can be had (from a fresh cache file or from its host) and decoded.
Available(url) == ~getCachedData(url).threw /\ ~ParseThrows(getCachedData(url).data)

\* The events of the feeds of the list that can be had, in the order of the list.
RECURSIVE EventsOfAvailable(_, _)
EventsOfAvailable(l, i) ==
    IF i > Len(l) THEN <<>>
    ELSE (IF Available(l[i])
          THEN parseIcsData(getCachedData(l[i]).data, 1, req.timezone, startDate, endDate)
          ELSE <<>>) \o EventsOfAvailable(l, i + 1)

\* C12: a request fails only if every one of its feeds fails; otherwise the answer holds
\* the events of every feed that did not fail.
C12_PartialFailureTolerated ==
    Sent =>
        /\ res.status = 500 =>
              /\ req.calendarUrls # <<>>
              /\ \A i \in DOMAIN req.calendarUrls : ~Available(req.calendarUrls[i])
        /\ res.status = 200 => res.body = EventsOfAvailable(req.calendarUrls, 1)

\* getCachedData is about to be called for the URL.
Calling(url) == spc = "loop" /\ u <= Len(req.calendarUrls) /\ req.calendarUrls[u] = url

\* C13: called for a URL whose cache file is older than the time to live while the fetch
\* of the URL fails, getCachedData returns the data of the cache file and does not throw.
C13_StaleCacheFallback ==
    \A url \in Urls :
        (Calling(url) /\ cache[url] # NoFile /\ ~Fresh(url) /\ url \notin online)
            => getCachedData(url) = [threw |-> FALSE, data |-> cache[url].data]

\* C14: a request whose window begins after its end is answered with an error before
\* any feed is processed.
C14_InvertedWindowRejected ==
    (spc \in {"loop", "sent"} /\ req.timezone # "" /\ startDate > endDate)
        => (spc = "sent" /\ res.status \in {400, 500} /\ console = <<>>)

-----------------------------------------------------------------------------
(* Properties of the weather service.                                      *)

\* C21: a call of getCachedOrFreshWeather made when the API has answered with a forecast
\* at time fetched.at resolves with that forecast without a request if it is made at or
\* before fetched.at + 6 hours, and makes a request if it is made later.
C21_CachedForSixHours ==
    [][\A c \in Calls :
          (calls[c].st = "idle" /\ calls'[c].st # "idle" /\ fetched # NoFetch) =>
              IF wnow <= fetched.at + CACHE_LIFETIME_HOURS
              THEN /\ calls'[c].st = "resolved"
                   /\ calls'[c].value = fetched.forecast
                   /\ ~calls'[c].requested
              ELSE calls'[c].requested]_vars

\* C26: a call rejects only when memory holds no forecast; a failing refresh made while
\* memory holds a forecast resolves with that forecast.
C26_RejectsOnlyWhenEmpty ==
    [][\A c \in Calls :
          (calls'[c].via = "fallback" /\ calls[c].via # "fallback") =>
              IF cachedWeatherData # NoForecast
              THEN calls'[c].st = "resolved" /\ calls'[c].value = cachedWeatherData
              ELSE calls'[c].st = "rejected"]_vars

\* A refresh failed after the forecast was stored (the cache file could not be written)
\* and the call resolved with the forecast in memory.
C26_Witness ==
    \E c \in Calls :
        /\ calls[c].st = "resolved" /\ calls[c].via = "fallback"
        /\ calls[c].forecast # NoForecast
        /\ calls[c].value = cachedWeatherData

\* C28: once the API has answered and the forecast is in memory, no step empties memory,
\* puts an older forecast there or lowers lastFetchTime.
C28_FreshNeverClobbered ==
    [][fetched # NoFetch =>
          /\ cachedWeatherData' # NoForecast
          /\ cachedWeatherData' >= cachedWeatherData
          /\ lastFetchTime' >= lastFetchTime]_vars

-----------------------------------------------------------------------------
(* Properties of getOctoPrintStatus.                                       *)

\* C27: no call of getOctoPrintStatus rejects; a call whose request fails resolves with the
\* cached status if there is one and with the error default otherwise, and leaves
\* cachedStatus and the fetch time as they were; and a call made less than 30 seconds
\* after the start of a call whose request succeeded makes no request.
C27_NeverRejectsAndCaches ==
    [][\A c \in Jobs :
          /\ jobs'[c].st \in {"idle", "fetching", "resolved"}
          /\ (jobs[c].st = "fetching" /\ jobs'[c].via = "catch") =>
                /\ jobs'[c].value = IF cachedStatus # NoStatus
                                    THEN Returns("status", cachedStatus)
                                    ELSE Returns("error", NoStatus)
                /\ cachedStatus' = cachedStatus
                /\ lastStatusFetchTime' = lastStatusFetchTime
          /\ (/\ jobs[c].st = "idle" /\ jobs'[c].st # "idle"
              /\ lastGood # NoGood
              /\ onow - lastGood.now < CACHE_DURATION_MS)
                => ~jobs'[c].requested]_vars

-----------------------------------------------------------------------------
(* Properties of the garage door service.                                  *)

\* C22: when MQTT_BROKER is unset or MQTT_ENABLED is 'false', a call of getGarageDoorState
\* returns the disabled default and creates no MQTT client.
C22_DisabledDefault ==
    [][(lastCall' = "getGarageDoorState" /\ (~mqttEnv.broker \/ mqttEnv.disabled)) =>
          /\ gres' = DisabledDefault
          /\ clients' = clients]_vars

\* The MQTT clients that were created and not ended.
LiveClients == {i \in DOMAIN clients : ~clients[i].ended}

\* C29: at most one MQTT client that has not been ended exists, and mqttClient refers
\* to it.
C29_OneLiveClient ==
    /\ Cardinality(LiveClients) <= 1
    /\ \A i \in LiveClients : mqttClient = i

-----------------------------------------------------------------------------
(* Properties of the App component.                                        *)

\* C30: a tick changes the displayed start week only if the week of (now + 4 hours) is
\* not the week of the previous tick's logical date and the displayed week is that
\* previous week, and then to the start of the new logical week; otherwise it leaves the
\* displayed week, in particular one reached with Prev/Next, as it is.
C30_TickFollowsLogicalWeek ==
    [][appLast' = "tick" =>
          LET previousWeek == startOfIsoWeek(logicalDateRef)
              newWeek == startOfIsoWeek(anow + LOGICAL_OFFSET_HOURS * MinPerHour)
          IN  IF previousWeek # newWeek /\ startOfIsoWeek(weekStartDate) = previousWeek
              THEN weekStartDate' = newWeek
              ELSE weekStartDate' = weekStartDate]_vars

\* No button was pressed and a tick on a Sunday evening has moved the display to the week
\* that starts the next day.
C30_Witness ==
    /\ appLast = "tick" /\ ~clicked
    /\ weekStartDate > anow
    /\ weekStartDate = startOfIsoWeek(logicalDateRef)

=============================================================================
